---- MODULE Spec2Model ----
(***************************************************************************)
(* zcash-mina bridge: the BridgeV3 contract (src/src/bridge.ts) with the   *)
(* ZcashVerifier proof outputs it consumes and the MerkleMap witnesses it  *)
(* checks.  Poseidon is idealised as an injective hash: a digest is the    *)
(* tuple of its inputs, and a MerkleMap root is the content of the map     *)
(* (the set of its non-zero leaves), so two roots are equal exactly when   *)
(* the maps are.                                                           *)
(***************************************************************************)
EXTENDS Integers, Sequences, FiniteSets, TLC

VARIABLES
  configHash,        \* @state configHash
  zcashBlockHash,    \* @state zcashBlockHash
  zcashBlockHeight,  \* @state zcashBlockHeight
  nullifierSetRoot,  \* @state nullifierSetRoot
  processedTxRoot,   \* @state processedTxRoot
  isPaused,          \* @state isPaused
  burnRequestsRoot,  \* @state burnRequestsRoot
  now,               \* this.network.timestamp (ms)
  minted,            \* log of 'minted' events, one per token.internal.mint
  burned,            \* log of 'burned' events, one per token.internal.burn
  lastCall,          \* the method call of the last step and its outcome
  lastMint,          \* <<the arguments of the last successful mint>>, for replays
  pending,           \* burn requests made by requestBurn and not yet executed
  provedState,       \* account.provedState: all app state was set by a proof
  proofChain,        \* ZcashVerifier: the steps of the recursive proof being built
  headerChain,       \* LightClient: the proofs of the header chain being built
  usedSignatures,    \* operator signatures a recorded pause / unpause accepted
  nullifierMap,      \* demo server: its copy of the nullifier map
  processedTxMap,    \* demo server: its copy of the processed-transaction map
  transactionMutex   \* demo server: the chain of promises withMutex has built

vars == <<configHash, zcashBlockHash, zcashBlockHeight, nullifierSetRoot,
          processedTxRoot, isPaused, burnRequestsRoot, now, minted, burned,
          lastCall, lastMint, pending, provedState, proofChain, headerChain,
          usedSignatures, nullifierMap, processedTxMap, transactionMutex>>

bridgeState == <<configHash, zcashBlockHash, zcashBlockHeight, nullifierSetRoot,
                 processedTxRoot, isPaused, burnRequestsRoot>>

tokenState == <<minted, burned>>

\* What the bridge's methods never touch: the account flag set at initialize,
\* the off-chain provers, the record of the signatures seen, and the maps of
\* the demo server
proverState == <<provedState, proofChain, headerChain, usedSignatures,
                 nullifierMap, processedTxMap, transactionMutex>>

----------------------------------------------------------------------------
(* Bounds of the model *)

MaxMints == 2
MaxBurns == 2
MaxHeight == 1
StartTime == 1000000
MaxActivity == 1
MaxHeaderSteps == 3
MaxProofSteps == 3
MaxRequests == 3
HeaderClock == 1477641360

(* Program constants *)

\* Mint amounts are UInt64 zatoshi beyond the model checker's integers: an
\* amount is <<m, z>>, standing for m * 1,000,000 + z with z < 1,000,000
MIN_MINT_AMOUNT == <<0, 100000>>
MAX_MINT_AMOUNT == <<1000000, 0>>
TIMELOCK_MS == 60000
DOCUMENTED_TIMELOCK_MS == 86400000
UNSPENT == 0
SPENT == 1
PAUSE_MESSAGE == 1
UNPAUSE_MESSAGE == 0
POW_BITS_READ == 20
POW_MIN_ZEROS == 10
MAX_FUTURE_S == 7200

(* Input domains *)

TOKEN_ADDRESS == "zkZEC"
OPERATOR_ADDRESS == "operator"
TokenAddresses == {TOKEN_ADDRESS, "otherToken"}
OperatorAddresses == {OPERATOR_ADDRESS, "mallory"}
Recipients == {"user1"}
Requesters == {"user1", "user2"}
Nullifiers == {1, 2, 3}
Amounts == {<<0, 99999>>, MIN_MINT_AMOUNT, <<1000000, 1>>}
BurnAmounts == {500000}
ZcashAddresses == {77}
Clock == {StartTime, StartTime + TIMELOCK_MS - 1, StartTime + TIMELOCK_MS,
          StartTime + DOCUMENTED_TIMELOCK_MS - 1,
          StartTime + DOCUMENTED_TIMELOCK_MS}

NoArgs == <<>>

\* UInt64 comparison of two amounts
AmountLeq(x, y) == x[1] < y[1] \/ (x[1] = y[1] /\ x[2] <= y[2])

----------------------------------------------------------------------------
(* Poseidon.hash and MerkleMap / MerkleMapWitness *)

PoseidonHash(fields) == fields

EmptyMap == {}

MapGet(map, key) ==
  IF \E e \in map : e[1] = key THEN (CHOOSE e \in map : e[1] = key)[2] ELSE 0

MapSet(map, key, value) ==
  {e \in map : e[1] # key} \cup (IF value = 0 THEN {} ELSE {<<key, value>>})

GetWitness(map, key) == [key |-> key, siblings |-> {e \in map : e[1] # key}]

ComputeRootAndKey(witness, value) ==
  <<MapSet(witness.siblings, witness.key, value), witness.key>>

Sign(signer, message) == [signer |-> signer, message |-> message]

SignatureVerify(signature, publicKey, message) ==
  signature.signer = publicKey /\ signature.message = message

ConfigHashOf(tokenAddress, operatorAddress) ==
  PoseidonHash(<<tokenAddress, operatorAddress>>)

----------------------------------------------------------------------------
(* ZcashShieldedProof and the ZcashVerifier ZkProgram *)

\* The transfers of the model: every nullifier pair and amount with non-zero
\* proof elements, one with a zero proofA, and one of the largest amount
ZcashShieldedProofs ==
  [anchor : {11}, nullifier1 : Nullifiers, nullifier2 : Nullifiers,
   commitment1 : {21}, commitment2 : {22},
   valueCommitment1 : {31}, valueCommitment2 : {32},
   valueBalance : Amounts, proofA : {1}, proofB : {1}, proofC : {1}]
  \cup
  [anchor : {11}, nullifier1 : {1}, nullifier2 : {2},
   commitment1 : {21}, commitment2 : {22},
   valueCommitment1 : {31}, valueCommitment2 : {32},
   valueBalance : {MIN_MINT_AMOUNT}, proofA : {0}, proofB : {1}, proofC : {1}]
  \cup
  [anchor : {11}, nullifier1 : {1}, nullifier2 : {2},
   commitment1 : {21}, commitment2 : {22},
   valueCommitment1 : {31}, valueCommitment2 : {32},
   valueBalance : {MAX_MINT_AMOUNT}, proofA : {1}, proofB : {1}, proofC : {1}]

ValueCommitmentIsValid(vc) == TRUE

ProofVerify(proof) ==
  /\ proof.nullifier1 # proof.nullifier2
  /\ ValueCommitmentIsValid(proof.valueCommitment1)
  /\ ValueCommitmentIsValid(proof.valueCommitment2)
  /\ AmountLeq(<<0, 0>>, proof.valueBalance)
  /\ proof.proofA # 0
  /\ proof.proofB # 0
  /\ proof.proofC # 0

ProofHash(proof) ==
  PoseidonHash(<<proof.anchor, proof.nullifier1, proof.nullifier2,
                 proof.commitment1, proof.commitment2, proof.valueBalance>>)

\* (mutant) a mint amount that is not read from the transfer
GetMintAmountFixed(proof) == MIN_MINT_AMOUNT

GetMintAmount(proof) == proof.valueBalance

MintOutputOf(txHash, proof) ==
  [amount |-> GetMintAmount(proof), nullifier1 |-> proof.nullifier1,
   nullifier2 |-> proof.nullifier2, txHash |-> txHash]

\* Each method: does its assertion pass on these inputs
VerifySingle(txHash, proof) == ProofVerify(proof) /\ ProofHash(proof) = txHash

\* (mutant) a verifyBatch step that does not verify the previous proof
VerifyBatchIgnoringPrevious(currentTxHash, previousValid, newProof) ==
  ProofVerify(newProof) /\ ProofHash(newProof) = currentTxHash

VerifyBatch(currentTxHash, previousValid, newProof) ==
  previousValid /\ ProofVerify(newProof) /\ ProofHash(newProof) = currentTxHash

VerifyWithNullifierCheck(txHash, proof) == ProofVerify(proof) /\ TRUE /\ TRUE

\* A transaction hash that is the digest of another transaction
ForeignTxHash ==
  PoseidonHash(<<11, 3, 1, 21, 22, MIN_MINT_AMOUNT>>)

\* A ZcashProofVerification as handed to the bridge: the method that made it,
\* its public input and private input (previousValid: the SelfProof a
\* verifyBatch step consumed verifies)
ZcashProofVerifications ==
  UNION {{[method |-> "verifySingle", publicInput |-> h, proof |-> p,
           previousValid |-> TRUE] : h \in {ProofHash(p), ForeignTxHash}}
         \cup {[method |-> "verifyBatch", publicInput |-> ProofHash(p), proof |-> p,
                previousValid |-> b] : b \in BOOLEAN}
         \cup {[method |-> "verifyWithNullifierCheck", publicInput |-> h, proof |-> p,
                previousValid |-> TRUE] : h \in {ProofHash(p), ForeignTxHash}} :
         p \in ZcashShieldedProofs}

\* proofVerification.verify(): the proof was produced by a method whose
\* assertions passed
ProofVerificationVerify(pv) ==
  CASE pv.method = "verifySingle" -> VerifySingle(pv.publicInput, pv.proof)
    [] pv.method = "verifyBatch" ->
         VerifyBatch(pv.publicInput, pv.previousValid, pv.proof)
    [] OTHER -> VerifyWithNullifierCheck(pv.publicInput, pv.proof)

PublicOutput(pv) == MintOutputOf(pv.publicInput, pv.proof)

\* What isValid() is documented to verify: the point is on the Jubjub curve.
\* The value commitments of the model are points (x, y) with x = 0, where the
\* Jubjub equation -x^2 + y^2 = 1 + d x^2 y^2 reads y^2 = 1: the neutral
\* point (0, 1) is on the curve, (0, 0) is not
OnJubjubCurve(vc) == vc.x = 0 /\ vc.y * vc.y = 1

\* The transfers given to the ZcashVerifier prover: one that satisfies every
\* condition of verify(), one more like it, and each single departure from it
ValidTransfer ==
  [anchor |-> 11, nullifier1 |-> 1, nullifier2 |-> 2, commitment1 |-> 21,
   commitment2 |-> 22, valueCommitment1 |-> [x |-> 0, y |-> 1],
   valueCommitment2 |-> [x |-> 0, y |-> 1], valueBalance |-> MIN_MINT_AMOUNT,
   proofA |-> 1, proofB |-> 1, proofC |-> 1]

TransferProofs ==
  {ValidTransfer,
   [ValidTransfer EXCEPT !.nullifier2 = 3],
   [ValidTransfer EXCEPT !.nullifier2 = 1],
   [ValidTransfer EXCEPT !.valueCommitment1 = [x |-> 0, y |-> 0]],
   [ValidTransfer EXCEPT !.valueCommitment2 = [x |-> 0, y |-> 0]],
   [ValidTransfer EXCEPT !.proofA = 0],
   [ValidTransfer EXCEPT !.proofB = 0],
   [ValidTransfer EXCEPT !.proofC = 0]}

----------------------------------------------------------------------------
(* LightClient ZkProgram: headers and the proofs of its init method *)

ZcashBlockHeaders ==
  [version : {4}, prevBlockHash : {<<>>}, merkleRoot : {0}, timestamp : {1477641360},
   bits : {1}, nonce : {0}, height : 0..MaxHeight]

HeaderHash(header) ==
  PoseidonHash(<<header.version, header.prevBlockHash, header.merkleRoot,
                 header.timestamp, header.bits, header.nonce, header.height>>)

GenesisHeader ==
  [version |-> 4, prevBlockHash |-> <<>>, merkleRoot |-> 0, timestamp |-> 1477641360,
   bits |-> 1, nonce |-> 0, height |-> 0]

\* (mutant) LightClient.init without the assertion on the block hash
LightClientInitOkAnyHash(blockHash, header) == TRUE

\* LightClient.init(blockHash, header): the assertion and the state it returns
LightClientInitOk(blockHash, header) == blockHash = HeaderHash(header)

LightClientInit(blockHash, header) ==
  [latestBlockHash |-> blockHash, height |-> header.height, chainWork |-> 0,
   timestamp |-> header.timestamp]

LightClientProofs ==
  {[publicInput |-> h, header |-> hd] :
     h \in {HeaderHash(x) : x \in ZcashBlockHeaders}, hd \in ZcashBlockHeaders}

\* The proofs the LightClient prover holds: each was made by a method whose
\* assertions passed
HeldProofs == {headerChain[i] : i \in DOMAIN headerChain}

\* proof.verify(): a held proof verifies, a claimed init proof verifies when
\* the assertion of init passes
LightClientProofVerify(proof) ==
  IF "header" \in DOMAIN proof
    THEN LightClientInitOk(proof.publicInput, proof.header)
    ELSE TRUE

LightClientPublicOutput(proof) ==
  IF "header" \in DOMAIN proof
    THEN LightClientInit(proof.publicInput, proof.header)
    ELSE proof.publicOutput

\* hash().toBits(254), the bits verifyPoW reads.  The digest of the model is
\* the tuple of the header's fields, so its bits are chosen by the nonce (the
\* sixth field): all zero, all one, or alternating from a leading one.
HashBits(digest) ==
  [i \in 1..POW_BITS_READ |->
     CASE digest[6] = 0 -> 0
       [] digest[6] = 1 -> 1
       [] OTHER -> i % 2]

\* verifyPoW: at least POW_MIN_ZEROS of the bits read are zero
VerifyPoW(header) ==
  LET hashBits == HashBits(HeaderHash(header))
  IN Cardinality({i \in 1..POW_BITS_READ : hashBits[i] = 0}) >= POW_MIN_ZEROS

\* (mutant) a timestamp check that accepts the previous block's timestamp
VerifyTimestampNotBefore(header, prevTimestamp, currentTime) ==
  header.timestamp >= prevTimestamp /\ header.timestamp <= currentTime + MAX_FUTURE_S

VerifyTimestamp(header, prevTimestamp, currentTime) ==
  LET afterPrevious == header.timestamp > prevTimestamp
      maxFuture == currentTime + MAX_FUTURE_S
      notTooFuture == header.timestamp <= maxFuture
  IN afterPrevious /\ notTooFuture

LinksTo(header, prevBlockHash) == header.prevBlockHash = prevBlockHash

CalculateBlockWork(bits) == bits

\* (mutant) an update that forgets the work of the chain before the block
UpdateWorkOfBlock(state, header) ==
  [latestBlockHash |-> HeaderHash(header), height |-> header.height,
   chainWork |-> CalculateBlockWork(header.bits),
   timestamp |-> header.timestamp]

\* LightClientState.update
Update(state, header) ==
  [latestBlockHash |-> HeaderHash(header), height |-> header.height,
   chainWork |-> state.chainWork + CalculateBlockWork(header.bits),
   timestamp |-> header.timestamp]

\* (mutant) verifyBlock without the height assertion
VerifyBlockResultAnyHeight(newBlockHash, prevState, newHeader, currentTime) ==
  IF HeaderHash(newHeader) # newBlockHash THEN "Header hash mismatch"
  ELSE IF ~LinksTo(newHeader, prevState.latestBlockHash)
    THEN "Block does not link to previous"
  ELSE IF ~VerifyPoW(newHeader) THEN "Invalid proof-of-work"
  ELSE IF ~VerifyTimestamp(newHeader, prevState.timestamp, currentTime)
    THEN "Invalid timestamp"
  ELSE "ok"

\* LightClient.verifyBlock on a previous proof that verifies: the first
\* assertion that fails, or "ok"
VerifyBlockResult(newBlockHash, prevState, newHeader, currentTime) ==
  IF HeaderHash(newHeader) # newBlockHash THEN "Header hash mismatch"
  ELSE IF ~LinksTo(newHeader, prevState.latestBlockHash)
    THEN "Block does not link to previous"
  ELSE IF newHeader.height # prevState.height + 1 THEN "Height mismatch"
  ELSE IF ~VerifyPoW(newHeader) THEN "Invalid proof-of-work"
  ELSE IF ~VerifyTimestamp(newHeader, prevState.timestamp, currentTime)
    THEN "Invalid timestamp"
  ELSE "ok"

\* The loop of LightClient.verifyBatch from header i on: the first assertion
\* that fails and the state reached
RECURSIVE BatchLoop(_, _, _, _)
BatchLoop(state, headers, i, currentTime) ==
  IF i > Len(headers) THEN [result |-> "ok", state |-> state]
  ELSE LET header == headers[i]
       IN IF ~LinksTo(header, state.latestBlockHash)
            THEN [result |-> "Header does not link to chain", state |-> state]
          ELSE IF ~VerifyPoW(header)
            THEN [result |-> "Invalid PoW in batch", state |-> state]
          ELSE IF ~VerifyTimestamp(header, state.timestamp, currentTime)
            THEN [result |-> "Invalid timestamp in batch", state |-> state]
          ELSE BatchLoop(Update(state, header), headers, i + 1, currentTime)

\* LightClient.verifyBatch on a previous proof that verifies
VerifyBatchResult(finalBlockHash, prevState, headers, currentTime) ==
  LET loop == BatchLoop(prevState, headers, 1, currentTime)
  IN IF loop.result # "ok" THEN loop.result
     ELSE IF loop.state.latestBlockHash # finalBlockHash THEN "Final hash mismatch"
     ELSE "ok"

VerifyBatchState(prevState, headers, currentTime) ==
  BatchLoop(prevState, headers, 1, currentTime).state

\* Headers a prover may offer on top of a state: linked to its tip or not,
\* one or two above its height, with or without proof of work, at the
\* previous timestamp, just after it, and at and past the future limit
NextHeaders(state, currentTime) ==
  [version : {4}, prevBlockHash : {state.latestBlockHash, <<>>}, merkleRoot : {0},
   timestamp : {state.timestamp, state.timestamp + 1, currentTime + MAX_FUTURE_S,
                currentTime + MAX_FUTURE_S + 1},
   bits : {1}, nonce : {0, 1}, height : {state.height + 1, state.height + 2}]

\* Headers a miner may offer on top of a state: linked to its tip, one above
\* its height, after its timestamp, at either difficulty, with a hash that is
\* all zero bits, all one bits, or alternating from a leading one
MinedHeaders(state) ==
  [version : {4}, prevBlockHash : {state.latestBlockHash}, merkleRoot : {0},
   timestamp : {state.timestamp + 1, state.timestamp + 2},
   bits : {1, 2}, nonce : {0, 1, 2}, height : {state.height + 1}]

\* The header arrays of verifyBatch, each header offered on the state the
\* headers before it lead to
HeaderBatches(state, currentTime) ==
  UNION {{<<h1, h2>> : h2 \in NextHeaders(Update(state, h1), currentTime)} :
         h1 \in NextHeaders(state, currentTime)}

CurrentTimes == {HeaderClock}

----------------------------------------------------------------------------
(* BridgeV3 *)

Init ==
  /\ configHash = ConfigHashOf(TOKEN_ADDRESS, OPERATOR_ADDRESS)
  /\ zcashBlockHash = HeaderHash(GenesisHeader)
  /\ zcashBlockHeight = 0
  /\ nullifierSetRoot = EmptyMap
  /\ processedTxRoot = EmptyMap
  /\ isPaused = FALSE
  /\ burnRequestsRoot = EmptyMap
  /\ now = StartTime
  /\ minted = <<>>
  /\ burned = <<>>
  /\ lastCall = [op |-> "initialize", result |-> "ok", call |-> NoArgs,
                 replay |-> FALSE]
  /\ lastMint = <<>>
  /\ pending = EmptyMap
  /\ provedState = TRUE
  /\ proofChain = <<>>
  /\ headerChain = <<>>
  /\ usedSignatures = {}
  /\ nullifierMap = EmptyMap
  /\ processedTxMap = EmptyMap
  /\ transactionMutex = <<>>

\* The account after deploy and before initialize: every field of the app
\* state is Field(0), which is the digest of nothing and the root of no map
\* (a root of the model is a set of non-zero leaves; the zero field is the
\* set of one zero leaf, which no MerkleMap yields), and provedState is false
ZeroField == <<>>

ZeroRoot == {<<0, 0>>}

InitDeployed ==
  /\ configHash = ZeroField
  /\ zcashBlockHash = ZeroField
  /\ zcashBlockHeight = 0
  /\ nullifierSetRoot = ZeroRoot
  /\ processedTxRoot = ZeroRoot
  /\ isPaused = FALSE
  /\ burnRequestsRoot = ZeroRoot
  /\ now = StartTime
  /\ minted = <<>>
  /\ burned = <<>>
  /\ lastCall = [op |-> "deploy", result |-> "ok", call |-> NoArgs, replay |-> FALSE]
  /\ lastMint = <<>>
  /\ pending = EmptyMap
  /\ provedState = FALSE
  /\ proofChain = <<>>
  /\ headerChain = <<>>
  /\ usedSignatures = {}
  /\ nullifierMap = EmptyMap
  /\ processedTxMap = EmptyMap
  /\ transactionMutex = <<>>

\* The initialised bridge on a LocalBlockchain, whose network.timestamp
\* starts at 0 and advances with the slots
InitLocalBlockchain ==
  /\ configHash = ConfigHashOf(TOKEN_ADDRESS, OPERATOR_ADDRESS)
  /\ zcashBlockHash = HeaderHash(GenesisHeader)
  /\ zcashBlockHeight = 0
  /\ nullifierSetRoot = EmptyMap
  /\ processedTxRoot = EmptyMap
  /\ isPaused = FALSE
  /\ burnRequestsRoot = EmptyMap
  /\ now = 0
  /\ minted = <<>>
  /\ burned = <<>>
  /\ lastCall = [op |-> "initialize", result |-> "ok", call |-> NoArgs,
                 replay |-> FALSE]
  /\ lastMint = <<>>
  /\ pending = EmptyMap
  /\ provedState = TRUE
  /\ proofChain = <<>>
  /\ headerChain = <<>>
  /\ usedSignatures = {}
  /\ nullifierMap = EmptyMap
  /\ processedTxMap = EmptyMap
  /\ transactionMutex = <<>>

\* A failed assertion aborts the transaction: no state is set, nothing is
\* minted or burned, no event is emitted
Rejected(op, reason) ==
  /\ lastCall' = [op |-> op, result |-> reason, call |-> NoArgs, replay |-> FALSE]
  /\ UNCHANGED <<bridgeState, tokenState, now, lastMint, pending, proverState>>

\* The roots a caller of initialize may supply: the root of the empty map, as
\* the deployment scripts do, or the root of a map with an entry
InitialRoots == {EmptyMap, {<<1, SPENT>>}}

InitializeCalls ==
  [tokenAddress : TokenAddresses, operatorAddress : OperatorAddresses,
   genesisBlockHash : {HeaderHash(GenesisHeader)}, genesisHeight : {0, 1},
   initialNullifierRoot : InitialRoots, initialProcessedTxRoot : InitialRoots,
   initialBurnRequestsRoot : InitialRoots]

\* (mutant) an initialize without the precondition of super.init()
InitializeResultRepeatable(call) == "ok"

\* initialize: super.init() requires account.provedState to be false, and the
\* method has no assertion of its own
InitializeResult(call) ==
  IF provedState THEN "provedState precondition" ELSE "ok"

\* initialize sets every field of the app state under a proof, after which
\* the account's provedState is true
Initialize ==
  \E call \in InitializeCalls :
    LET result == InitializeResult(call)
    IN IF result = "ok"
         THEN /\ configHash' = ConfigHashOf(call.tokenAddress, call.operatorAddress)
              /\ zcashBlockHash' = call.genesisBlockHash
              /\ zcashBlockHeight' = call.genesisHeight
              /\ nullifierSetRoot' = call.initialNullifierRoot
              /\ processedTxRoot' = call.initialProcessedTxRoot
              /\ isPaused' = FALSE
              /\ burnRequestsRoot' = call.initialBurnRequestsRoot
              /\ provedState' = TRUE
              /\ lastCall' = [op |-> "initialize", result |-> "ok", call |-> call,
                              replay |-> FALSE]
              /\ UNCHANGED <<tokenState, now, lastMint, pending, proofChain,
                             headerChain, usedSignatures, nullifierMap,
                             processedTxMap, transactionMutex>>
         ELSE Rejected("initialize", result)

\* (mutant) updateLightClient without its pause check
UpdateLightClientResultNoPause(proof) ==
  IF ~LightClientProofVerify(proof) THEN "Invalid proof"
  ELSE IF ~(LightClientPublicOutput(proof).height > zcashBlockHeight)
    THEN "Light client proof must advance the chain"
  ELSE "ok"

\* (mutant) updateLightClient without the check that the height advances
UpdateLightClientResultAnyHeight(proof) ==
  IF isPaused THEN "Bridge is paused"
  ELSE IF ~LightClientProofVerify(proof) THEN "Invalid proof"
  ELSE "ok"

\* updateLightClient: the first assertion that fails, or "ok"
UpdateLightClientResult(proof) ==
  IF isPaused THEN "Bridge is paused"
  ELSE IF ~LightClientProofVerify(proof) THEN "Invalid proof"
  ELSE IF ~(LightClientPublicOutput(proof).height > zcashBlockHeight)
    THEN "Light client proof must advance the chain"
  ELSE "ok"

UpdateLightClient ==
  \E proof \in LightClientProofs \cup HeldProofs :
    LET result == UpdateLightClientResult(proof)
        newState == LightClientPublicOutput(proof)
    IN IF result = "ok"
         THEN /\ zcashBlockHash' = newState.latestBlockHash
              /\ zcashBlockHeight' = newState.height
              /\ lastCall' = [op |-> "updateLightClient", result |-> "ok",
                              call |-> proof, replay |-> FALSE]
              /\ UNCHANGED <<configHash, nullifierSetRoot, processedTxRoot, isPaused,
                             burnRequestsRoot, tokenState, now, lastMint, pending, proverState>>
         ELSE Rejected("updateLightClient", result)

\* Every witness over the nullifier keys of the model (leaves UNSPENT or SPENT)
NullifierWitnesses ==
  UNION {{[key |-> k, siblings |-> S \X {SPENT}] : S \in SUBSET (Nullifiers \ {k})} :
         k \in Nullifiers}

\* A transaction hash other than the caller's and the foreign one
OtherTxHash ==
  PoseidonHash(<<11, 2, 1, 21, 22, MIN_MINT_AMOUNT>>)

\* Witnesses of the processed-transaction map for a call with this transaction
\* hash: for its key or another, drawn from the committed map or the empty
\* map, or the one the last successful mint used
ProcessedTxWitnesses(txHash) ==
  {GetWitness(m, k) : m \in {processedTxRoot, EmptyMap},
                      k \in {txHash, ForeignTxHash, OtherTxHash}}
  \cup {lastMint[i].processedTxWitness : i \in DOMAIN lastMint}

\* (mutant) mintWithFullVerification without its two amount assertions
MintResultNoAmountCheck(call) ==
  LET mintOutput == PublicOutput(call.proofVerification)
      r1 == ComputeRootAndKey(call.nullifierWitness1, UNSPENT)
      r2 == ComputeRootAndKey(call.nullifierWitness2, UNSPENT)
      rt == ComputeRootAndKey(call.processedTxWitness, 0)
  IN IF configHash # ConfigHashOf(call.tokenAddress, call.operatorAddress)
       THEN "Invalid config"
     ELSE IF isPaused THEN "Bridge is paused"
     ELSE IF ~ProofVerificationVerify(call.proofVerification) THEN "Invalid proof"
     ELSE IF r1[1] # nullifierSetRoot THEN "Invalid nullifier witness 1"
     ELSE IF r1[2] # mintOutput.nullifier1 THEN "Nullifier1 mismatch"
     ELSE IF r2[1] # nullifierSetRoot THEN "Invalid nullifier witness 2"
     ELSE IF r2[2] # mintOutput.nullifier2 THEN "Nullifier2 mismatch"
     ELSE IF rt[1] # processedTxRoot THEN "Invalid tx witness"
     ELSE IF rt[2] # mintOutput.txHash THEN "Tx hash mismatch"
     ELSE "ok"

\* (mutant) mintWithFullVerification without the assertions on the keys of
\* its three witnesses
MintResultNoKeyCheck(call) ==
  LET mintOutput == PublicOutput(call.proofVerification)
      r1 == ComputeRootAndKey(call.nullifierWitness1, UNSPENT)
      r2 == ComputeRootAndKey(call.nullifierWitness2, UNSPENT)
      rt == ComputeRootAndKey(call.processedTxWitness, 0)
  IN IF configHash # ConfigHashOf(call.tokenAddress, call.operatorAddress)
       THEN "Invalid config"
     ELSE IF isPaused THEN "Bridge is paused"
     ELSE IF ~ProofVerificationVerify(call.proofVerification) THEN "Invalid proof"
     ELSE IF ~AmountLeq(MIN_MINT_AMOUNT, mintOutput.amount) THEN "Amount too small"
     ELSE IF ~AmountLeq(mintOutput.amount, MAX_MINT_AMOUNT) THEN "Amount too large"
     ELSE IF r1[1] # nullifierSetRoot THEN "Invalid nullifier witness 1"
     ELSE IF r2[1] # nullifierSetRoot THEN "Invalid nullifier witness 2"
     ELSE IF rt[1] # processedTxRoot THEN "Invalid tx witness"
     ELSE "ok"

\* mintWithFullVerification: the first assertion that fails, or "ok"
\* (merkleBranch is a parameter the method never reads)
MintResult(call) ==
  LET mintOutput == PublicOutput(call.proofVerification)
      r1 == ComputeRootAndKey(call.nullifierWitness1, UNSPENT)
      r2 == ComputeRootAndKey(call.nullifierWitness2, UNSPENT)
      rt == ComputeRootAndKey(call.processedTxWitness, 0)
  IN IF configHash # ConfigHashOf(call.tokenAddress, call.operatorAddress)
       THEN "Invalid config"
     ELSE IF isPaused THEN "Bridge is paused"
     ELSE IF ~ProofVerificationVerify(call.proofVerification) THEN "Invalid proof"
     ELSE IF ~AmountLeq(MIN_MINT_AMOUNT, mintOutput.amount) THEN "Amount too small"
     ELSE IF ~AmountLeq(mintOutput.amount, MAX_MINT_AMOUNT) THEN "Amount too large"
     ELSE IF r1[1] # nullifierSetRoot THEN "Invalid nullifier witness 1"
     ELSE IF r1[2] # mintOutput.nullifier1 THEN "Nullifier1 mismatch"
     ELSE IF r2[1] # nullifierSetRoot THEN "Invalid nullifier witness 2"
     ELSE IF r2[2] # mintOutput.nullifier2 THEN "Nullifier2 mismatch"
     ELSE IF rt[1] # processedTxRoot THEN "Invalid tx witness"
     ELSE IF rt[2] # mintOutput.txHash THEN "Tx hash mismatch"
     ELSE "ok"

\* (mutant) the nullifier root committed without marking nullifier1 spent
NewNullifierRootUnmarked(call) ==
  ComputeRootAndKey(call.nullifierWitness1, UNSPENT)[1]

\* The root mintWithFullVerification commits to nullifierSetRoot
NewNullifierRoot(call) == ComputeRootAndKey(call.nullifierWitness1, SPENT)[1]

\* (mutant) the processed root committed without marking the transaction
NewProcessedRootUnmarked(call) == ComputeRootAndKey(call.processedTxWitness, 0)[1]

\* The root mintWithFullVerification commits to processedTxRoot
NewProcessedRoot(call) == ComputeRootAndKey(call.processedTxWitness, 1)[1]

MintedEvent(call) ==
  LET mintOutput == PublicOutput(call.proofVerification)
  IN [recipient |-> call.recipientAddress, amount |-> mintOutput.amount,
      zcashTxHash |-> mintOutput.txHash, nullifier1 |-> mintOutput.nullifier1,
      nullifier2 |-> mintOutput.nullifier2]

\* (mutant) a mint that sets the nullifier root before the processed-tx
\* witness is checked, and keeps it when that check fails
MintCallPartial(call, replay) ==
  LET result == MintResult(call)
  IN IF result = "ok"
       THEN /\ Len(minted) < MaxMints
            /\ nullifierSetRoot' = NewNullifierRoot(call)
            /\ processedTxRoot' = NewProcessedRoot(call)
            /\ minted' = Append(minted, MintedEvent(call))
            /\ lastCall' = [op |-> "mint", result |-> "ok", call |-> call,
                            replay |-> replay]
            /\ lastMint' = <<call>>
            /\ UNCHANGED <<configHash, zcashBlockHash, zcashBlockHeight, isPaused,
                           burnRequestsRoot, burned, now, pending, proverState>>
       ELSE /\ lastCall' = [op |-> "mint", result |-> result, call |-> NoArgs,
                            replay |-> replay]
            /\ nullifierSetRoot' = IF result \in {"Invalid tx witness", "Tx hash mismatch"}
                                     THEN NewNullifierRoot(call) ELSE nullifierSetRoot
            /\ UNCHANGED <<configHash, zcashBlockHash, zcashBlockHeight,
                           processedTxRoot, isPaused, burnRequestsRoot, tokenState,
                           now, lastMint, pending, proverState>>

\* One call of mintWithFullVerification
MintCall(call, replay) ==
  LET result == MintResult(call)
  IN IF result = "ok"
       THEN /\ Len(minted) < MaxMints
            /\ nullifierSetRoot' = NewNullifierRoot(call)
            /\ processedTxRoot' = NewProcessedRoot(call)
            /\ minted' = Append(minted, MintedEvent(call))
            /\ lastCall' = [op |-> "mint", result |-> "ok", call |-> call,
                            replay |-> replay]
            /\ lastMint' = <<call>>
            /\ UNCHANGED <<configHash, zcashBlockHash, zcashBlockHeight, isPaused,
                           burnRequestsRoot, burned, now, pending, proverState>>
       ELSE /\ lastCall' = [op |-> "mint", result |-> result, call |-> NoArgs,
                            replay |-> replay]
            /\ UNCHANGED <<bridgeState, tokenState, now, lastMint, pending, proverState>>

NullifierWitnessProves(witness, nullifier) ==
  LET r == ComputeRootAndKey(witness, UNSPENT)
  IN r[1] = nullifierSetRoot /\ r[2] = nullifier

\* mintWithFullVerification on any arguments.  The arguments are drawn in the
\* order the method reads them; those it never reaches take a fixed value.
Mint ==
  \E tokenAddress \in TokenAddresses, operatorAddress \in OperatorAddresses,
     recipientAddress \in Recipients :
    LET anyWitness == GetWitness(EmptyMap, 1)
        anyTxWitness == GetWitness(EmptyMap, ForeignTxHash)
        Call(pv, w1, w2, wt) ==
          [tokenAddress |-> tokenAddress, operatorAddress |-> operatorAddress,
           recipientAddress |-> recipientAddress, proofVerification |-> pv,
           nullifierWitness1 |-> w1, nullifierWitness2 |-> w2,
           processedTxWitness |-> wt]
        anyProof == [method |-> "verifySingle", publicInput |-> ForeignTxHash,
                     proof |-> CHOOSE p \in ZcashShieldedProofs : TRUE,
                     previousValid |-> TRUE]
    IN IF configHash # ConfigHashOf(tokenAddress, operatorAddress) \/ isPaused
         THEN MintCall(Call(anyProof, anyWitness, anyWitness, anyTxWitness), FALSE)
         ELSE
         \E pv \in ZcashProofVerifications :
           IF \/ ~ProofVerificationVerify(pv)
              \/ ~AmountLeq(MIN_MINT_AMOUNT, PublicOutput(pv).amount)
              \/ ~AmountLeq(PublicOutput(pv).amount, MAX_MINT_AMOUNT)
             THEN MintCall(Call(pv, anyWitness, anyWitness, anyTxWitness), FALSE)
             ELSE
             \E w1 \in NullifierWitnesses :
               IF ~NullifierWitnessProves(w1, PublicOutput(pv).nullifier1)
                 THEN MintCall(Call(pv, w1, anyWitness, anyTxWitness), FALSE)
                 ELSE
                 \E w2 \in NullifierWitnesses :
                   IF ~NullifierWitnessProves(w2, PublicOutput(pv).nullifier2)
                     THEN MintCall(Call(pv, w1, w2, anyTxWitness), FALSE)
                     ELSE \E wt \in ProcessedTxWitnesses(PublicOutput(pv).txHash) :
                            MintCall(Call(pv, w1, w2, wt), FALSE)

\* The client submits the last successful mint again, unchanged
ReplayMint ==
  /\ Len(lastMint) = 1
  /\ MintCall(lastMint[1], TRUE)

\* OrchardBundle: two actions, the value balance, the anchor and the binding
\* signature, which the first action's rk signs over <<valueBalance, anchor>>
OrchardActions == [nf : Nullifiers, cmx : {1}, rk : {"rk"}]

OrchardBundles ==
  {[actions |-> <<a1, a2>>, valueBalance |-> v, anchor |-> a,
    bindingSignature |-> Sign(signer, <<v, a>>)] :
     a1 \in OrchardActions, a2 \in OrchardActions,
     v \in {<<0, 99999>>, MIN_MINT_AMOUNT},
     a \in {HeaderHash(GenesisHeader), ZeroField},
     signer \in {"rk", "mallory"}}

\* OrchardVerifier.verifyBundle(anchor, bundle): its assertions and its output
VerifyBundleOk(anchor, bundle) ==
  /\ bundle.anchor = anchor
  /\ SignatureVerify(bundle.bindingSignature, bundle.actions[1].rk,
                     <<bundle.valueBalance, bundle.anchor>>)
  /\ \A i \in 1..2 : bundle.actions[i].cmx # 0 /\ bundle.actions[i].nf # 0

VerifyBundleOutput(bundle) ==
  [nullifiers |-> <<bundle.actions[1].nf, bundle.actions[2].nf>>,
   commitments |-> <<bundle.actions[1].cmx, bundle.actions[2].cmx>>,
   valueBalance |-> bundle.valueBalance]

\* The OrchardProof values a caller may claim: one verifies when the
\* assertions of verifyBundle pass on its anchor and bundle
OrchardProofs == [publicInput : {HeaderHash(GenesisHeader)}, bundle : OrchardBundles]

OrchardProofVerify(proof) == VerifyBundleOk(proof.publicInput, proof.bundle)

\* mintWithOrchardVerification: the first assertion that fails, or "ok"
OrchardMintResult(call) ==
  LET output == VerifyBundleOutput(call.orchardProof.bundle)
      nullifiers == <<call.orchardBundle.actions[1].nf, call.orchardBundle.actions[2].nf>>
      r1 == ComputeRootAndKey(call.nullifierWitnesses[1], UNSPENT)
      r2 == ComputeRootAndKey(call.nullifierWitnesses[2], UNSPENT)
      mintAmount == call.orchardBundle.valueBalance
  IN IF configHash # ConfigHashOf(call.tokenAddress, call.operatorAddress)
       THEN "Invalid config"
     ELSE IF isPaused THEN "Bridge is paused"
     ELSE IF ~OrchardProofVerify(call.orchardProof) THEN "Invalid proof"
     ELSE IF call.orchardProof.publicInput # zcashBlockHash THEN "Anchor mismatch"
     ELSE IF output.valueBalance # call.orchardBundle.valueBalance
       THEN "Value balance mismatch"
     ELSE IF output.nullifiers # nullifiers THEN "Nullifier mismatch with proof"
     ELSE IF r1[1] # nullifierSetRoot THEN "Invalid nullifier witness"
     ELSE IF r1[2] # nullifiers[1] THEN "Nullifier mismatch"
     ELSE IF r2[1] # nullifierSetRoot THEN "Invalid nullifier witness"
     ELSE IF r2[2] # nullifiers[2] THEN "Nullifier mismatch"
     ELSE IF ~AmountLeq(MIN_MINT_AMOUNT, mintAmount) THEN "Amount too small"
     ELSE IF ~AmountLeq(mintAmount, MAX_MINT_AMOUNT) THEN "Amount too large"
     ELSE "ok"

\* The loop that updates the nullifier set: currentRoot starts at the
\* committed root and takes, for each witness in turn, the root that witness
\* computes with its own leaf set to SPENT
RECURSIVE OrchardRootLoop(_, _, _)
OrchardRootLoop(currentRoot, witnesses, i) ==
  IF i > Len(witnesses) THEN currentRoot
  ELSE OrchardRootLoop(ComputeRootAndKey(witnesses[i], SPENT)[1], witnesses, i + 1)

OrchardNullifierRoot(call) ==
  OrchardRootLoop(nullifierSetRoot, call.nullifierWitnesses, 1)

OrchardMintedEvent(call) ==
  [recipient |-> call.recipientAddress, amount |-> call.orchardBundle.valueBalance,
   zcashTxHash |-> call.orchardBundle.anchor,
   nullifier1 |-> call.orchardBundle.actions[1].nf,
   nullifier2 |-> call.orchardBundle.actions[2].nf]

\* One call of mintWithOrchardVerification
OrchardMintCall(call) ==
  LET result == OrchardMintResult(call)
  IN IF result = "ok"
       THEN /\ Len(minted) < MaxMints
            /\ nullifierSetRoot' = OrchardNullifierRoot(call)
            /\ minted' = Append(minted, OrchardMintedEvent(call))
            /\ lastCall' = [op |-> "mintWithOrchardVerification", result |-> "ok",
                            call |-> call, replay |-> FALSE]
            /\ UNCHANGED <<configHash, zcashBlockHash, zcashBlockHeight,
                           processedTxRoot, isPaused, burnRequestsRoot, burned, now,
                           lastMint, pending, proverState>>
       ELSE Rejected("mintWithOrchardVerification", result)

\* mintWithOrchardVerification on any arguments: the bundle passed is the
\* proof's own or one with another second nullifier, and the witnesses are
\* drawn once the proof and the bundle have passed
MintWithOrchardVerification ==
  \E tokenAddress \in TokenAddresses, operatorAddress \in OperatorAddresses,
     recipientAddress \in Recipients :
    LET anyWitness == GetWitness(EmptyMap, 1)
        Call(proof, bundle, w1, w2) ==
          [tokenAddress |-> tokenAddress, operatorAddress |-> operatorAddress,
           recipientAddress |-> recipientAddress, orchardBundle |-> bundle,
           orchardProof |-> proof, nullifierWitnesses |-> <<w1, w2>>]
    IN \E proof \in IF configHash # ConfigHashOf(tokenAddress, operatorAddress)
                         \/ isPaused
                      THEN {CHOOSE p \in OrchardProofs : TRUE}
                      ELSE OrchardProofs :
         \E bundle \in {proof.bundle} \cup
                        {b \in OrchardBundles :
                           /\ b.actions[1] = proof.bundle.actions[1]
                           /\ b.valueBalance = proof.bundle.valueBalance
                           /\ b.anchor = proof.bundle.anchor
                           /\ b.bindingSignature = proof.bundle.bindingSignature} :
           IF OrchardMintResult(Call(proof, bundle, anyWitness, anyWitness))
                \notin {"Invalid nullifier witness", "Nullifier mismatch",
                         "Amount too small", "Amount too large", "ok"}
             THEN OrchardMintCall(Call(proof, bundle, anyWitness, anyWitness))
             ELSE \E w1 \in NullifierWitnesses, w2 \in NullifierWitnesses :
                    OrchardMintCall(Call(proof, bundle, w1, w2))

\* The key of a burn request in the burn-requests map
RequestHash(requesterAddress, amount, zcashAddress) ==
  PoseidonHash(<<requesterAddress, amount, zcashAddress>>)

RequestKeys ==
  {RequestHash(r, a, z) : r \in Requesters, a \in BurnAmounts, z \in ZcashAddresses}

\* Every witness over the request keys of the model (leaves 0 or a timestamp)
BurnWitnesses ==
  UNION {{[key |-> k, siblings |-> m] :
            m \in {{}} \cup {{<<k2, t>>} : k2 \in RequestKeys \ {k}, t \in Clock}} :
         k \in RequestKeys}

UserSignatures ==
  {Sign(r, <<a, z>>) : r \in Requesters, a \in BurnAmounts, z \in ZcashAddresses \cup {78}}

\* UInt64.sub: the subtraction asserts that it does not underflow
Sub64Underflows(x, y) == x - y < 0

\* (mutant) requestBurn without its pause check
RequestBurnResultNoPause(call) ==
  LET r == ComputeRootAndKey(call.burnRequestsWitness, 0)
  IN IF ~SignatureVerify(call.userSignature, call.requesterAddress,
                         <<call.amount, call.zcashAddress>>)
       THEN "Invalid user signature"
     ELSE IF r[1] # burnRequestsRoot THEN "Invalid witness"
     ELSE IF r[2] # RequestHash(call.requesterAddress, call.amount, call.zcashAddress)
       THEN "Request hash mismatch"
     ELSE "ok"

\* (mutant) requestBurn without the assertion on the user's signature
RequestBurnResultNoSignature(call) ==
  LET r == ComputeRootAndKey(call.burnRequestsWitness, 0)
  IN IF isPaused THEN "Bridge is paused"
     ELSE IF r[1] # burnRequestsRoot THEN "Invalid witness"
     ELSE IF r[2] # RequestHash(call.requesterAddress, call.amount, call.zcashAddress)
       THEN "Request hash mismatch"
     ELSE "ok"

\* requestBurn: the first assertion that fails, or "ok"
RequestBurnResult(call) ==
  LET r == ComputeRootAndKey(call.burnRequestsWitness, 0)
  IN IF isPaused THEN "Bridge is paused"
     ELSE IF ~SignatureVerify(call.userSignature, call.requesterAddress,
                              <<call.amount, call.zcashAddress>>)
       THEN "Invalid user signature"
     ELSE IF r[1] # burnRequestsRoot THEN "Invalid witness"
     ELSE IF r[2] # RequestHash(call.requesterAddress, call.amount, call.zcashAddress)
       THEN "Request hash mismatch"
     ELSE "ok"

RequestBurnCalls ==
  [amount : BurnAmounts, zcashAddress : ZcashAddresses, userSignature : UserSignatures,
   requesterAddress : Requesters, burnRequestsWitness : BurnWitnesses]

RequestBurn ==
  \E call \in IF isPaused THEN {CHOOSE c \in RequestBurnCalls : TRUE}
                          ELSE RequestBurnCalls :
    LET result == RequestBurnResult(call)
        currentTime == now
    IN IF result = "ok"
         THEN /\ burnRequestsRoot' =
                   ComputeRootAndKey(call.burnRequestsWitness, currentTime)[1]
              /\ pending' = MapSet(pending,
                                   RequestHash(call.requesterAddress, call.amount,
                                               call.zcashAddress), currentTime)
              /\ lastCall' = [op |-> "requestBurn", result |-> "ok", call |-> call,
                              replay |-> FALSE]
              /\ UNCHANGED <<configHash, zcashBlockHash, zcashBlockHeight,
                             nullifierSetRoot, processedTxRoot, isPaused, tokenState,
                             now, lastMint, proverState>>
         ELSE Rejected("requestBurn", result)

\* (mutant) executeBurn without its timelock assertion
ExecuteBurnResultNoTimelock(call) ==
  LET r == ComputeRootAndKey(call.burnRequestsWitness, call.requestTime)
  IN IF configHash # ConfigHashOf(call.tokenAddress, call.operatorAddress)
       THEN "Invalid config"
     ELSE IF isPaused THEN "Bridge is paused"
     ELSE IF Sub64Underflows(now, call.requestTime) THEN "UInt64.sub underflow"
     ELSE IF r[1] # burnRequestsRoot THEN "Invalid witness"
     ELSE IF r[2] # RequestHash(call.burnerAddress, call.amount, call.zcashAddress)
       THEN "Request hash mismatch"
     ELSE "ok"

\* (mutant) executeBurn with a subtraction that wraps around: for a
\* requestTime after now the difference is near 2^64 and passes the timelock
ExecuteBurnResultWrapping(call) ==
  LET r == ComputeRootAndKey(call.burnRequestsWitness, call.requestTime)
  IN IF configHash # ConfigHashOf(call.tokenAddress, call.operatorAddress)
       THEN "Invalid config"
     ELSE IF isPaused THEN "Bridge is paused"
     ELSE IF now >= call.requestTime /\ ~(now - call.requestTime >= TIMELOCK_MS)
       THEN "Timelock not expired"
     ELSE IF r[1] # burnRequestsRoot THEN "Invalid witness"
     ELSE IF r[2] # RequestHash(call.burnerAddress, call.amount, call.zcashAddress)
       THEN "Request hash mismatch"
     ELSE "ok"

\* executeBurn: the first assertion that fails, or "ok"
ExecuteBurnResult(call) ==
  LET r == ComputeRootAndKey(call.burnRequestsWitness, call.requestTime)
  IN IF configHash # ConfigHashOf(call.tokenAddress, call.operatorAddress)
       THEN "Invalid config"
     ELSE IF isPaused THEN "Bridge is paused"
     ELSE IF Sub64Underflows(now, call.requestTime) THEN "UInt64.sub underflow"
     ELSE IF ~(now - call.requestTime >= TIMELOCK_MS) THEN "Timelock not expired"
     ELSE IF r[1] # burnRequestsRoot THEN "Invalid witness"
     ELSE IF r[2] # RequestHash(call.burnerAddress, call.amount, call.zcashAddress)
       THEN "Request hash mismatch"
     ELSE "ok"

ExecuteBurnCalls ==
  [tokenAddress : TokenAddresses, operatorAddress : OperatorAddresses,
   burnerAddress : Requesters, amount : BurnAmounts, zcashAddress : ZcashAddresses,
   requestTime : Clock \cup {0}, burnRequestsWitness : BurnWitnesses]

BurnedEvent(call) ==
  [burner |-> call.burnerAddress, amount |-> call.amount,
   zcashAddress |-> call.zcashAddress]

\* (mutant) the burn-requests root committed with the request left in place
ClearedRequestsRootKept(call) ==
  ComputeRootAndKey(call.burnRequestsWitness, call.requestTime)[1]

\* The root executeBurn commits to burnRequestsRoot
ClearedRequestsRoot(call) == ComputeRootAndKey(call.burnRequestsWitness, 0)[1]

\* One call of executeBurn
ExecuteBurnCall(call) ==
  LET result == ExecuteBurnResult(call)
      key == RequestHash(call.burnerAddress, call.amount, call.zcashAddress)
  IN IF result = "ok"
       THEN /\ Len(burned) < MaxBurns
            /\ burnRequestsRoot' = ClearedRequestsRoot(call)
            /\ burned' = Append(burned, BurnedEvent(call))
            /\ pending' = IF MapGet(pending, key) = call.requestTime
                            THEN MapSet(pending, key, 0) ELSE pending
            /\ lastCall' = [op |-> "executeBurn", result |-> "ok", call |-> call,
                            replay |-> FALSE]
            /\ UNCHANGED <<configHash, zcashBlockHash, zcashBlockHeight,
                           nullifierSetRoot, processedTxRoot, isPaused, minted,
                           now, lastMint, proverState>>
       ELSE Rejected("executeBurn", result)

\* executeBurn on any arguments (those the method never reaches take a fixed
\* value)
ExecuteBurn ==
  \E tokenAddress \in TokenAddresses, operatorAddress \in OperatorAddresses :
    LET calls == {c \in ExecuteBurnCalls : /\ c.tokenAddress = tokenAddress
                                           /\ c.operatorAddress = operatorAddress}
    IN IF configHash # ConfigHashOf(tokenAddress, operatorAddress) \/ isPaused
         THEN ExecuteBurnCall(CHOOSE c \in calls : TRUE)
         ELSE \E call \in calls : ExecuteBurnCall(call)

OperatorSignatures ==
  {Sign(o, <<m>>) : o \in OperatorAddresses, m \in {PAUSE_MESSAGE, UNPAUSE_MESSAGE}}

AdminCalls ==
  [tokenAddress : TokenAddresses, operatorAddress : OperatorAddresses,
   operatorSignature : OperatorSignatures]

\* (mutant) pause / unpause without the configuration check
AdminResultNoConfig(call, message) ==
  IF ~SignatureVerify(call.operatorSignature, call.operatorAddress, <<message>>)
    THEN "Invalid signature"
  ELSE "ok"

\* (mutant) pause / unpause without the assertion on the signature
AdminResultNoSignature(call, message) ==
  IF configHash # ConfigHashOf(call.tokenAddress, call.operatorAddress)
    THEN "Invalid config"
  ELSE "ok"

\* pause / unpause: the first assertion that fails, or "ok"
AdminResult(call, message) ==
  IF configHash # ConfigHashOf(call.tokenAddress, call.operatorAddress)
    THEN "Invalid config"
  ELSE IF ~SignatureVerify(call.operatorSignature, call.operatorAddress, <<message>>)
    THEN "Invalid signature"
  ELSE "ok"

\* (mutant) pause / unpause that also drops the pending burn requests
SetPausedClearingRequests(op, call, message, flag) ==
  LET result == AdminResult(call, message)
  IN IF result = "ok"
       THEN /\ isPaused' = flag
            /\ burnRequestsRoot' = EmptyMap
            /\ lastCall' = [op |-> op, result |-> "ok", call |-> call, replay |-> FALSE]
            /\ UNCHANGED <<configHash, zcashBlockHash, zcashBlockHeight,
                           nullifierSetRoot, processedTxRoot,
                           tokenState, now, lastMint, pending, proverState>>
       ELSE Rejected(op, result)

SetPaused(op, call, message, flag) ==
  LET result == AdminResult(call, message)
  IN IF result = "ok"
       THEN /\ isPaused' = flag
            /\ lastCall' = [op |-> op, result |-> "ok", call |-> call, replay |-> FALSE]
            /\ UNCHANGED <<configHash, zcashBlockHash, zcashBlockHeight,
                           nullifierSetRoot, processedTxRoot, burnRequestsRoot,
                           tokenState, now, lastMint, pending, proverState>>
       ELSE Rejected(op, result)

Pause == \E call \in AdminCalls : SetPaused("pause", call, PAUSE_MESSAGE, TRUE)

Unpause == \E call \in AdminCalls : SetPaused("unpause", call, UNPAUSE_MESSAGE, FALSE)

\* pause / unpause with a record kept of every signature accepted
SetPausedRecorded(op, call, message, flag) ==
  LET result == AdminResult(call, message)
  IN IF result = "ok"
       THEN /\ isPaused' = flag
            /\ usedSignatures' = usedSignatures \cup {call.operatorSignature}
            /\ lastCall' = [op |-> op, result |-> "ok", call |-> call, replay |-> FALSE]
            /\ UNCHANGED <<configHash, zcashBlockHash, zcashBlockHeight,
                           nullifierSetRoot, processedTxRoot, burnRequestsRoot,
                           tokenState, now, lastMint, pending, provedState,
                           proofChain, headerChain, nullifierMap, processedTxMap,
                           transactionMutex>>
       ELSE Rejected(op, result)

PauseRecorded ==
  \E call \in AdminCalls : SetPausedRecorded("pause", call, PAUSE_MESSAGE, TRUE)

UnpauseRecorded ==
  \E call \in AdminCalls : SetPausedRecorded("unpause", call, UNPAUSE_MESSAGE, FALSE)

\* ZcashProofHelper.createMockProof
MockProof(nullifier1, nullifier2, amount) ==
  [anchor |-> 0, nullifier1 |-> nullifier1, nullifier2 |-> nullifier2,
   commitment1 |-> 3, commitment2 |-> 4,
   valueCommitment1 |-> [x |-> 5, y |-> 6], valueCommitment2 |-> [x |-> 7, y |-> 8],
   valueBalance |-> amount, proofA |-> 9, proofB |-> 10, proofC |-> 11]

\* The accounts and the amounts (as amountToUInt64 returns them) of the
\* requests the demo server is sent
DemoAccounts == {"user1", "user2"}

DemoAmounts == {<<0, 99999>>, MIN_MINT_AMOUNT, <<0, 500000>>, <<1, 0>>}

\* The arguments handleMint hands to mintWithFullVerification: the verifySingle
\* proof of the mock transaction under its own hash and the witnesses of the
\* server's maps
HandleMintArgs(recipient, nullifier1, nullifier2, amount) ==
  LET mockProof == MockProof(nullifier1, nullifier2, amount)
      txHash == ProofHash(mockProof)
  IN [tokenAddress |-> TOKEN_ADDRESS, operatorAddress |-> OPERATOR_ADDRESS,
      recipientAddress |-> recipient,
      proofVerification |-> [method |-> "verifySingle", publicInput |-> txHash,
                             proof |-> mockProof, previousValid |-> TRUE],
      nullifierWitness1 |-> GetWitness(nullifierMap, nullifier1),
      nullifierWitness2 |-> GetWitness(nullifierMap, nullifier2),
      processedTxWitness |-> GetWitness(processedTxMap, txHash)]

\* One request to handleMint: the transaction is proved and sent, and when it
\* went through the server updates its maps with the keys in mirrored; a
\* transaction that fails throws before the maps are touched
HandleMintRequest(recipient, nullifier1, nullifier2, amount, mirrored) ==
  LET call == HandleMintArgs(recipient, nullifier1, nullifier2, amount)
      result == MintResult(call)
  IN IF result = "ok"
       THEN /\ Len(minted) < MaxMints
            /\ nullifierSetRoot' = NewNullifierRoot(call)
            /\ processedTxRoot' = NewProcessedRoot(call)
            /\ minted' = Append(minted, MintedEvent(call))
            /\ nullifierMap' = {e \in nullifierMap : e[1] \notin mirrored}
                                 \cup {<<n, SPENT>> : n \in mirrored}
            /\ processedTxMap' = MapSet(processedTxMap, call.proofVerification.publicInput, 1)
            /\ lastCall' = [op |-> "handleMint", result |-> "ok", call |-> call,
                            replay |-> FALSE]
            /\ lastMint' = <<call>>
            /\ UNCHANGED <<configHash, zcashBlockHash, zcashBlockHeight, isPaused,
                           burnRequestsRoot, burned, now, pending, provedState,
                           proofChain, headerChain, usedSignatures, transactionMutex>>
       ELSE Rejected("handleMint", result)

\* handleMint of src/demo-server.ts: nullifierMap.set for both nullifiers
HandleMint ==
  \E recipient \in DemoAccounts, nullifier1 \in Nullifiers, nullifier2 \in Nullifiers,
     amount \in DemoAmounts :
    HandleMintRequest(recipient, nullifier1, nullifier2, amount,
                      {nullifier1, nullifier2})

\* handleMint of the later server: nullifierMap.set for the first nullifier
HandleMintFirstNullifier ==
  \E recipient \in DemoAccounts, nullifier1 \in Nullifiers, nullifier2 \in Nullifiers,
     amount \in DemoAmounts :
    HandleMintRequest(recipient, nullifier1, nullifier2, amount, {nullifier1})

\* withMutex.  transactionMutex is the chain of promises built so far, one
\* entry for each call in the order of the calls: the request, its handler,
\* and the status of result = transactionMutex.then(() => fn()): "pending"
\* until the callback runs, "running" while fn() has not settled, then
\* "fulfilled" or "rejected".
Requests == 1..MaxRequests

Handlers == {"handleMint", "handleBurn"}

\* (mutant) transactionMutex = result, without the catch: a rejected result
\* leaves the mutex rejected and the callbacks chained on it never run
MutexFulfilledNoCatch(entry) == entry.status = "fulfilled"

\* result.catch(() => { }) is fulfilled once result has settled, either way
MutexFulfilled(entry) == entry.status \in {"fulfilled", "rejected"}

MutexStep ==
  UNCHANGED <<bridgeState, tokenState, now, lastCall, lastMint, pending,
              provedState, proofChain, headerChain, usedSignatures, nullifierMap,
              processedTxMap>>

\* A request reaches await withMutex(() => handler(ctx, body)): the promise
\* is chained on the mutex and becomes the mutex
WithMutex ==
  \E request \in Requests, handler \in Handlers :
    /\ \A i \in DOMAIN transactionMutex : transactionMutex[i].request # request
    /\ transactionMutex' = Append(transactionMutex,
                                  [request |-> request, handler |-> handler,
                                   status |-> "pending"])
    /\ MutexStep

\* The callback () => fn() runs once the promise it is chained on is fulfilled
\* (the first is chained on Promise.resolve())
StartHandler(i) ==
  /\ transactionMutex[i].status = "pending"
  /\ i > 1 => MutexFulfilled(transactionMutex[i - 1])
  /\ transactionMutex' = [transactionMutex EXCEPT ![i].status = "running"]
  /\ MutexStep

StartHandlers == \E i \in DOMAIN transactionMutex : StartHandler(i)

\* The handler's promise settles: the body returned, or it threw
HandlerReturns ==
  \E i \in DOMAIN transactionMutex :
    /\ transactionMutex[i].status = "running"
    /\ transactionMutex' = [transactionMutex EXCEPT ![i].status = "fulfilled"]
    /\ MutexStep

HandlerThrows ==
  \E i \in DOMAIN transactionMutex :
    /\ transactionMutex[i].status = "running"
    /\ transactionMutex' = [transactionMutex EXCEPT ![i].status = "rejected"]
    /\ MutexStep

\* Network time passes between transactions
Tick ==
  \E t \in Clock :
    /\ t > now
    /\ now' = t
    /\ lastCall' = [op |-> "tick", result |-> "ok", call |-> NoArgs, replay |-> FALSE]
    /\ UNCHANGED <<bridgeState, tokenState, lastMint, pending, proverState>>

----------------------------------------------------------------------------
(* The LightClient prover: a proof exists only when its method's assertions
   pass, and a step consumes the proof made last *)

ProverStep(op, result) ==
  /\ lastCall' = [op |-> op, result |-> result, call |-> NoArgs, replay |-> FALSE]
  /\ UNCHANGED <<bridgeState, tokenState, now, lastMint, pending, provedState,
                 usedSignatures, nullifierMap, processedTxMap, transactionMutex>>

LightClientInitStep ==
  /\ headerChain = <<>>
  /\ \E call \in LightClientProofs :
       /\ IF LightClientInitOk(call.publicInput, call.header)
            THEN /\ headerChain' =
                      <<[method |-> "init", publicInput |-> call.publicInput,
                         publicOutput |-> LightClientInit(call.publicInput, call.header)]>>
                 /\ ProverStep("LightClient.init", "ok")
            ELSE /\ UNCHANGED headerChain
                 /\ ProverStep("LightClient.init", "Block hash mismatch")
       /\ UNCHANGED proofChain

\* One call of LightClient.verifyBlock on the proof made last
VerifyBlockCall(newBlockHash, prevState, newHeader, currentTime) ==
  LET result == VerifyBlockResult(newBlockHash, prevState, newHeader, currentTime)
  IN /\ headerChain' =
          IF result = "ok"
            THEN Append(headerChain,
                        [method |-> "verifyBlock",
                         publicInput |-> newBlockHash,
                         publicOutput |-> Update(prevState, newHeader)])
            ELSE headerChain
     /\ ProverStep("LightClient.verifyBlock", result)
     /\ UNCHANGED proofChain

LightClientVerifyBlockStep ==
  /\ headerChain # <<>>
  /\ Len(headerChain) < MaxHeaderSteps
  /\ LET prevState == headerChain[Len(headerChain)].publicOutput
     IN \E currentTime \in CurrentTimes :
          \E newHeader \in NextHeaders(prevState, currentTime) :
            \E newBlockHash \in {HeaderHash(newHeader), prevState.latestBlockHash} :
              VerifyBlockCall(newBlockHash, prevState, newHeader, currentTime)

\* verifyBlock on the headers of a miner
LightClientMinedBlockStep ==
  /\ headerChain # <<>>
  /\ Len(headerChain) < MaxHeaderSteps
  /\ LET prevState == headerChain[Len(headerChain)].publicOutput
     IN \E currentTime \in CurrentTimes :
          \E newHeader \in MinedHeaders(prevState) :
            \E newBlockHash \in {HeaderHash(newHeader), prevState.latestBlockHash} :
              VerifyBlockCall(newBlockHash, prevState, newHeader, currentTime)

LightClientVerifyBatchStep ==
  /\ headerChain # <<>>
  /\ Len(headerChain) < MaxHeaderSteps
  /\ LET prevState == headerChain[Len(headerChain)].publicOutput
     IN \E currentTime \in CurrentTimes :
          \E headers \in HeaderBatches(prevState, currentTime) :
            \E finalBlockHash \in {HeaderHash(headers[Len(headers)]),
                                    prevState.latestBlockHash} :
              LET result == VerifyBatchResult(finalBlockHash, prevState, headers,
                                              currentTime)
              IN /\ headerChain' =
                      IF result = "ok"
                        THEN Append(headerChain,
                                    [method |-> "verifyBatch",
                                     publicInput |-> finalBlockHash,
                                     publicOutput |->
                                       VerifyBatchState(prevState, headers, currentTime)])
                        ELSE headerChain
                 /\ ProverStep("LightClient.verifyBatch", result)
                 /\ UNCHANGED proofChain

----------------------------------------------------------------------------
(* The ZcashVerifier prover: a chain of verifySingle and verifyBatch steps,
   each recorded with its public input, its transfer and whether the proof
   it consumed verifies *)

VerifySingleStep ==
  /\ proofChain = <<>>
  /\ \E proof \in TransferProofs :
       \E txHash \in {ProofHash(proof), ForeignTxHash} :
         LET pv == [method |-> "verifySingle", publicInput |-> txHash,
                    proof |-> proof, previousValid |-> TRUE]
         IN /\ proofChain' = <<pv>>
            /\ ProverStep("ZcashVerifier.verifySingle",
                          IF ProofVerificationVerify(pv) THEN "ok"
                          ELSE "Invalid Zcash proof")
            /\ UNCHANGED headerChain

VerifyBatchStep ==
  /\ proofChain # <<>>
  /\ Len(proofChain) < MaxProofSteps
  /\ \E newProof \in TransferProofs :
       \E currentTxHash \in {ProofHash(newProof), ForeignTxHash} :
         LET previousProof == proofChain[Len(proofChain)]
             pv == [method |-> "verifyBatch", publicInput |-> currentTxHash,
                    proof |-> newProof,
                    previousValid |-> ProofVerificationVerify(previousProof)]
         IN /\ proofChain' = Append(proofChain, pv)
            /\ ProverStep("ZcashVerifier.verifyBatch",
                          IF ProofVerificationVerify(pv) THEN "ok"
                          ELSE "Invalid Zcash proof in batch")
            /\ UNCHANGED headerChain

----------------------------------------------------------------------------
(* Specifications *)

Next ==
  \/ Initialize
  \/ UpdateLightClient
  \/ Mint
  \/ ReplayMint
  \/ RequestBurn
  \/ ExecuteBurn
  \/ Pause
  \/ Unpause
  \/ Tick

Spec == Init /\ [][Next]_vars

\* Mint calls alone: the nullifier and processed-transaction roots
NextMint ==
  \/ Mint
  \/ ReplayMint

SpecMint == Init /\ [][NextMint]_vars

\* Orchard mints, with the pause switch
NextOrchard ==
  \/ MintWithOrchardVerification
  \/ Pause
  \/ Unpause

SpecOrchard == Init /\ [][NextOrchard]_vars

\* The demo server's mint endpoint, as src/demo-server.ts has it
SpecDemoServer == Init /\ [][HandleMint]_vars

\* The demo server's mint endpoint, as the later server has it
SpecDemoServerFirstNullifier == Init /\ [][HandleMintFirstNullifier]_vars

\* The demo server's requests to /api/mint and /api/burn
NextMutex ==
  \/ WithMutex
  \/ StartHandlers
  \/ HandlerReturns
  \/ HandlerThrows

SpecMutex == Init /\ [][NextMutex]_vars

\* The operations the pause flag gates on the mint side
NextPause ==
  \/ UpdateLightClient
  \/ Mint
  \/ Pause
  \/ Unpause

SpecPause == Init /\ [][NextPause]_vars

\* The burn side: the burn-requests root and the timelock
NextBurn ==
  \/ RequestBurn
  \/ ExecuteBurn
  \/ Pause
  \/ Unpause
  \/ Tick

SpecBurn == Init /\ [][NextBurn]_vars

\* The size of the bridge's history: events, pending requests, tip updates
Activity ==
  Len(minted) + Len(burned) + Cardinality(pending)
    + (IF zcashBlockHeight > 0 THEN 1 ELSE 0)

\* Every method of the bridge, on histories of at most MaxActivity
NextAll ==
  \/ Initialize
  \/ UpdateLightClient /\ Activity' <= MaxActivity
  \/ Mint /\ Activity' <= MaxActivity
  \/ ReplayMint
  \/ RequestBurn /\ Activity' <= MaxActivity
  \/ ExecuteBurn /\ Activity' <= MaxActivity
  \/ Pause
  \/ Unpause
  \/ Tick

SpecAll == Init /\ [][NextAll]_vars

\* The burn side on a LocalBlockchain, from network time 0
NextLocalBlockchain ==
  \/ RequestBurn
  \/ ExecuteBurn
  \/ Tick

SpecLocalBlockchain == InitLocalBlockchain /\ [][NextLocalBlockchain]_vars

\* The tracked tip: the methods that set it or gate its update, and the
\* prover whose proofs updateLightClient is given
NextTip ==
  \/ Initialize
  \/ UpdateLightClient
  \/ Pause
  \/ Unpause
  \/ LightClientInitStep
  \/ LightClientVerifyBlockStep

SpecTip == Init /\ [][NextTip]_vars

\* From deploy on: initialize, then the methods that set or gate the tip
SpecInit == InitDeployed /\ [][NextTip]_vars

\* The operator's calls with their signatures recorded, and the tip update
\* the pause flag gates
NextAuthorization ==
  \/ PauseRecorded
  \/ UnpauseRecorded
  \/ UpdateLightClient
  \/ LightClientInitStep
  \/ LightClientVerifyBlockStep

SpecAuthorization == Init /\ [][NextAuthorization]_vars

\* The ZcashVerifier prover alone
NextProofChain ==
  \/ VerifySingleStep
  \/ VerifyBatchStep

SpecProofChain == Init /\ [][NextProofChain]_vars

\* The LightClient prover alone
NextHeaderChain ==
  \/ LightClientInitStep
  \/ LightClientVerifyBlockStep
  \/ LightClientVerifyBatchStep

SpecHeaderChain == Init /\ [][NextHeaderChain]_vars

\* The LightClient prover on the headers of a miner
NextMinedChain ==
  \/ LightClientInitStep
  \/ LightClientMinedBlockStep

SpecMinedChain == Init /\ [][NextMinedChain]_vars

----------------------------------------------------------------------------
(* Steps and calls the properties speak of *)

MintSucceeds == minted' # minted

BurnSucceeds == burned' # burned

MintedNullifiers(event) == {event.nullifier1, event.nullifier2}

\* Mint calls naming these addresses, with witnesses drawn from the committed
\* roots, one for every proof the verifier can be asked about
MintCallsTo(tokenAddress, operatorAddress) ==
  {[tokenAddress |-> tokenAddress, operatorAddress |-> operatorAddress,
    recipientAddress |-> "user1", proofVerification |-> pv,
    nullifierWitness1 |-> GetWitness(nullifierSetRoot, PublicOutput(pv).nullifier1),
    nullifierWitness2 |-> GetWitness(nullifierSetRoot, PublicOutput(pv).nullifier2),
    processedTxWitness |-> GetWitness(processedTxRoot, PublicOutput(pv).txHash)] :
     pv \in ZcashProofVerifications}

\* Mint calls with the committed configuration
CurrentMintCalls == MintCallsTo(TOKEN_ADDRESS, OPERATOR_ADDRESS)

\* requestBurn calls with the requester's signature and the witness of the
\* request's slot in the committed root
CurrentRequestBurnCalls ==
  {[amount |-> a, zcashAddress |-> z, userSignature |-> Sign(r, <<a, z>>),
    requesterAddress |-> r,
    burnRequestsWitness |-> GetWitness(burnRequestsRoot, RequestHash(r, a, z))] :
     r \in Requesters, a \in BurnAmounts, z \in ZcashAddresses}

\* The account and network preconditions of a prepared transaction: what each
\* method reads with getAndRequireEquals must still have the value read when
\* the transaction is applied
MintPreconditions ==
  <<configHash, isPaused, zcashBlockHash, nullifierSetRoot, processedTxRoot>>

UpdateLightClientPreconditions == <<isPaused, zcashBlockHash, zcashBlockHeight>>

RequestBurnPreconditions == <<isPaused, burnRequestsRoot, now>>

ExecuteBurnPreconditions == <<configHash, isPaused, now, burnRequestsRoot>>

CallKey(call) == RequestHash(call.burnerAddress, call.amount, call.zcashAddress)

\* The header a block hash is the digest of
HeaderOf(digest) ==
  [version |-> digest[1], prevBlockHash |-> digest[2], merkleRoot |-> digest[3],
   timestamp |-> digest[4], bits |-> digest[5], nonce |-> digest[6],
   height |-> digest[7]]

\* The block hash is that of a header reached from the tip through headers
\* each linked to the one before by prevBlockHash, one higher, later, and
\* with proof of work
RECURSIVE ExtendsTip(_, _, _)
ExtendsTip(digest, tipHash, tipHeight) ==
  /\ Len(digest) = 7
  /\ LET header == HeaderOf(digest)
     IN /\ VerifyPoW(header)
        /\ \/ /\ header.prevBlockHash = tipHash
              /\ header.height = tipHeight + 1
              /\ Len(tipHash) = 7 => header.timestamp > HeaderOf(tipHash).timestamp
           \/ /\ Len(header.prevBlockHash) = 7
              /\ header.height = HeaderOf(header.prevBlockHash).height + 1
              /\ header.timestamp > HeaderOf(header.prevBlockHash).timestamp
              /\ ExtendsTip(header.prevBlockHash, tipHash, tipHeight)

\* The state the LightClient proof made last attests
TipState == headerChain[Len(headerChain)].publicOutput

\* verifyBlock applied to the headers one after the other, each on the proof
\* of the one before and with its own hash as the claimed hash
RECURSIVE BlockByBlock(_, _, _, _)
BlockByBlock(state, headers, i, currentTime) ==
  IF i > Len(headers) THEN [result |-> "ok", state |-> state]
  ELSE LET result == VerifyBlockResult(HeaderHash(headers[i]), state, headers[i],
                                       currentTime)
       IN IF result # "ok" THEN [result |-> result, state |-> state]
          ELSE BlockByBlock(Update(state, headers[i]), headers, i + 1, currentTime)

----------------------------------------------------------------------------
(* Properties *)

\* C1: across any sequence of mint calls, every nullifier value is consumed by
\* at most one successful mint: no two successful mints have a nullifier in
\* common, in either position.
C1_NullifierConsumedOnce ==
  \A i \in DOMAIN minted : \A j \in DOMAIN minted :
    i < j => MintedNullifiers(minted[i]) \cap MintedNullifiers(minted[j]) = {}

\* C2: the last successful mint submitted again, unchanged, is rejected with
\* a witness mismatch on the nullifier root, changes no state and issues no
\* tokens.
C2_ReplayRejected ==
  [][(lastCall'.op = "mint" /\ lastCall'.replay)
       => /\ lastCall'.result = "Invalid nullifier witness 1"
          /\ UNCHANGED <<bridgeState, tokenState>>]_vars

C2_Witness ==
  /\ lastCall.op = "mint"
  /\ lastCall.replay
  /\ lastCall.result = "Invalid nullifier witness 1"
  /\ Len(minted) >= 1

\* C3: after every successful mint the committed nullifier root is the
\* pre-mint map with both nullifier1 and nullifier2 of the MintOutput SPENT.
C3_BothNullifiersCommitted ==
  [][MintSucceeds
       => LET event == minted'[Len(minted')]
          IN nullifierSetRoot' =
               MapSet(MapSet(nullifierSetRoot, event.nullifier1, SPENT),
                      event.nullifier2, SPENT)]_vars

\* C4: no transaction hash is processed twice: the successful mints have
\* pairwise different txHash, and each is PROCESSED in processedTxRoot.
C4_TxProcessedOnce ==
  /\ \A i \in DOMAIN minted : \A j \in DOMAIN minted :
       i < j => minted[i].zcashTxHash # minted[j].zcashTxHash
  /\ \A i \in DOMAIN minted : MapGet(processedTxRoot, minted[i].zcashTxHash) = 1

C4_Witness ==
  /\ Len(minted) >= 1
  /\ lastCall.op = "mint"
  /\ lastCall.result = "Invalid tx witness"

\* C5: while the bridge is paused every mint and every updateLightClient call
\* is rejected and changes nothing, nothing the two methods read changes
\* during the pause, and a successful unpause clears the flag and nothing
\* else, so a call that would have succeeded before the pause succeeds again.
C5_PauseGates ==
  /\ [](isPaused
          => /\ \A call \in CurrentMintCalls : MintResult(call) # "ok"
             /\ \A proof \in LightClientProofs : UpdateLightClientResult(proof) # "ok")
  /\ [][/\ (isPaused /\ lastCall'.op \in {"mint", "updateLightClient"})
             => lastCall'.result # "ok" /\ UNCHANGED <<bridgeState, tokenState>>
        /\ isPaused
             => UNCHANGED <<configHash, zcashBlockHash, zcashBlockHeight,
                            nullifierSetRoot, processedTxRoot, tokenState>>
        /\ (lastCall'.op = "unpause" /\ lastCall'.result = "ok")
             => ~isPaused']_vars

C5_Witness ==
  /\ isPaused
  /\ Len(minted) >= 1
  /\ lastCall.op = "mint"
  /\ lastCall.result = "Bridge is paused"

\* C6: while the bridge is paused requestBurn and executeBurn are rejected
\* whatever their arguments, and leave burnRequestsRoot and the tokens as
\* they are.
C6_PauseGatesBurn ==
  /\ [](isPaused
          => /\ \A call \in RequestBurnCalls : RequestBurnResult(call) # "ok"
             /\ \A call \in ExecuteBurnCalls : ExecuteBurnResult(call) # "ok")
  /\ [][(isPaused /\ lastCall'.op \in {"requestBurn", "executeBurn"})
          => /\ lastCall'.result # "ok"
             /\ UNCHANGED <<burnRequestsRoot, tokenState>>]_vars

C6_Witness ==
  /\ isPaused
  /\ burnRequestsRoot # EmptyMap
  /\ lastCall.op = "executeBurn"
  /\ lastCall.result = "Bridge is paused"

\* C7: executeBurn is rejected whenever now - requestTime is below the
\* contract's timelock, for every requestTime and every witness, and a
\* rejected executeBurn leaves burnRequestsRoot and the tokens as they are.
C7_TimelockRejects ==
  /\ [](\A call \in ExecuteBurnCalls :
          now - call.requestTime < TIMELOCK_MS => ExecuteBurnResult(call) # "ok")
  /\ [][(lastCall'.op = "executeBurn" /\ lastCall'.result # "ok")
          => UNCHANGED <<burnRequestsRoot, tokenState>>]_vars

C7_Witness ==
  /\ lastCall.op = "executeBurn"
  /\ lastCall.result = "Timelock not expired"
  /\ \E e \in pending : now - e[2] < TIMELOCK_MS

\* C8: the burn timelock is 24 hours: a request stored by requestBurn is
\* executed only when 86,400,000 ms have passed since its requestTime.
C8_TimelockIs24h ==
  [][(BurnSucceeds /\ MapGet(pending, CallKey(lastCall'.call)) # 0)
       => now - MapGet(pending, CallKey(lastCall'.call)) >= DOCUMENTED_TIMELOCK_MS]_vars

C10_BurnOnlyPending ==
  [][BurnSucceeds
       => /\ lastCall'.call.requestTime # 0
          /\ MapGet(pending, CallKey(lastCall'.call)) = lastCall'.call.requestTime]_vars

\* C11: a mint succeeds only with 100,000 <= amount <= 1,000,000,000,000
\* (both limits included); with any other amount the call is rejected, no
\* root changes and no tokens are issued.
C11_AmountInRange ==
  /\ [](\A call \in CurrentMintCalls :
          LET amount == PublicOutput(call.proofVerification).amount
          IN MintResult(call) = "ok"
               => AmountLeq(<<0, 100000>>, amount) /\ AmountLeq(amount, <<1000000, 0>>))
  /\ [][/\ MintSucceeds
             => LET amount == minted'[Len(minted')].amount
                IN AmountLeq(<<0, 100000>>, amount) /\ AmountLeq(amount, <<1000000, 0>>)
        /\ (lastCall'.op = "mint"
              /\ lastCall'.result \in {"Amount too small", "Amount too large"})
             => UNCHANGED <<bridgeState, tokenState>>]_vars

C11_Witness ==
  /\ lastCall.op = "mint"
  /\ lastCall.result = "Amount too large"
  /\ \E i \in DOMAIN minted : minted[i].amount = MAX_MINT_AMOUNT

\* C12: mint, executeBurn, pause and unpause are rejected whenever the hash
\* of the addresses the caller supplies differs from configHash, a call so
\* rejected changes no state, and every mint and burn that succeeds names the
\* token address bound in configHash.
C12_ConfigBinds ==
  /\ [](\A tokenAddress \in TokenAddresses, operatorAddress \in OperatorAddresses :
          ConfigHashOf(tokenAddress, operatorAddress) # configHash
            => /\ \A call \in MintCallsTo(tokenAddress, operatorAddress) :
                    MintResult(call) = "Invalid config"
               /\ \A call \in ExecuteBurnCalls :
                    (call.tokenAddress = tokenAddress
                      /\ call.operatorAddress = operatorAddress)
                       => ExecuteBurnResult(call) = "Invalid config"
               /\ \A call \in AdminCalls :
                    (call.tokenAddress = tokenAddress
                      /\ call.operatorAddress = operatorAddress)
                       => /\ AdminResult(call, PAUSE_MESSAGE) = "Invalid config"
                          /\ AdminResult(call, UNPAUSE_MESSAGE) = "Invalid config")
  /\ [][/\ (lastCall'.op \in {"mint", "executeBurn", "pause", "unpause"}
              /\ lastCall'.result = "Invalid config")
             => UNCHANGED <<bridgeState, tokenState>>
        /\ (MintSucceeds \/ BurnSucceeds
              \/ (lastCall'.op \in {"pause", "unpause"} /\ lastCall'.result = "ok"))
             => configHash = ConfigHashOf(lastCall'.call.tokenAddress,
                                          lastCall'.call.operatorAddress)]_vars

C12_Witness ==
  /\ lastCall.op = "executeBurn"
  /\ lastCall.result = "Invalid config"
  /\ \E e \in pending : now - e[2] >= TIMELOCK_MS

\* C13: every rejected call of initialize, updateLightClient, mint,
\* requestBurn, executeBurn, pause or unpause leaves configHash, the tip (hash
\* and height), the three roots and the pause flag as they were, and mints
\* and burns nothing.
C13_RejectedChangesNothing ==
  [][(lastCall'.op \in {"initialize", "updateLightClient", "mint", "requestBurn",
                         "executeBurn", "pause", "unpause"}
        /\ lastCall'.result # "ok")
       => UNCHANGED <<bridgeState, tokenState>>]_vars

C13_Witness ==
  /\ lastCall.op = "initialize"
  /\ lastCall.result # "ok"
  /\ Len(minted) >= 1

\* C16: verifyBlock succeeds only for a header whose height is the prior
\* state's height plus one, the state it returns has that height, and so
\* every verifyBlock proof of a chain is one higher than the proof before it.
C16_HeightPlusOne ==
  /\ headerChain # <<>>
       => \A currentTime \in CurrentTimes :
            \A newHeader \in NextHeaders(TipState, currentTime) :
              \A newBlockHash \in {HeaderHash(newHeader), TipState.latestBlockHash} :
                VerifyBlockResult(newBlockHash, TipState, newHeader, currentTime) = "ok"
                  => /\ newHeader.height = TipState.height + 1
                     /\ Update(TipState, newHeader).height = TipState.height + 1
  /\ \A i \in 2..Len(headerChain) :
       headerChain[i].method = "verifyBlock"
         => headerChain[i].publicOutput.height
              = headerChain[i - 1].publicOutput.height + 1

C16_Witness ==
  /\ Len(headerChain) = 3
  /\ headerChain[2].method = "verifyBlock"
  /\ headerChain[3].method = "verifyBlock"
  /\ headerChain[3].publicOutput.height = headerChain[1].publicOutput.height + 2

\* C17: verifyBlock rejects every header whose prevBlockHash is not the prior
\* state's latestBlockHash, and accepts a header only if its timestamp is
\* after the prior state's and at most currentTime + 7200.
C17_LinkAndTimestamp ==
  headerChain # <<>>
    => \A currentTime \in CurrentTimes :
         \A newHeader \in NextHeaders(TipState, currentTime) :
           \A newBlockHash \in {HeaderHash(newHeader), TipState.latestBlockHash} :
             LET result == VerifyBlockResult(newBlockHash, TipState, newHeader,
                                             currentTime)
             IN /\ newHeader.prevBlockHash # TipState.latestBlockHash
                     => result # "ok"
                /\ result = "ok"
                     => /\ TipState.timestamp < newHeader.timestamp
                        /\ newHeader.timestamp <= currentTime + 7200

C17_Witness ==
  /\ Len(headerChain) >= 2
  /\ lastCall.op = "LightClient.verifyBlock"
  /\ lastCall.result = "Invalid timestamp"

\* C18: verifyBatch over headers h1..hk from a state succeeds exactly when k
\* successive verifyBlock steps from that state succeed, and then returns the
\* state they return.
C18_BatchEqualsBlocks ==
  headerChain # <<>>
    => \A currentTime \in CurrentTimes :
         \A headers \in HeaderBatches(TipState, currentTime) :
           LET batch == VerifyBatchResult(HeaderHash(headers[Len(headers)]), TipState,
                                          headers, currentTime)
               blocks == BlockByBlock(TipState, headers, 1, currentTime)
           IN /\ batch = "ok" <=> blocks.result = "ok"
              /\ batch = "ok"
                   => VerifyBatchState(TipState, headers, currentTime) = blocks.state

C15_TipExtendsHistory ==
  [][(lastCall'.op = "updateLightClient" /\ lastCall'.result = "ok")
       => /\ ExtendsTip(zcashBlockHash', zcashBlockHash, zcashBlockHeight)
          /\ zcashBlockHeight' = HeaderOf(zcashBlockHash').height]_vars

\* C19: a chain of one verifySingle step and verifyBatch steps after it is
\* accepted, by the verifier and so by the bridge, exactly when every
\* transfer of the chain satisfies verify() and every step's public input is
\* the hash of its own transfer.
C19_ChainAcceptedIffAllValid ==
  proofChain # <<>>
    => (ProofVerificationVerify(proofChain[Len(proofChain)])
          <=> \A i \in DOMAIN proofChain :
                /\ ProofVerify(proofChain[i].proof)
                /\ ProofHash(proofChain[i].proof) = proofChain[i].publicInput)

C19_Witness ==
  /\ Len(proofChain) = 3
  /\ ~ProofVerify(proofChain[1].proof)
  /\ \A i \in 2..3 : /\ ProofVerify(proofChain[i].proof)
                      /\ ProofHash(proofChain[i].proof) = proofChain[i].publicInput
  /\ ~ProofVerificationVerify(proofChain[3])

\* C20: verify() is true exactly when the nullifiers differ, both value
\* commitments are valid (on the Jubjub curve), valueBalance >= 0 and
\* proofA, proofB, proofC are non-zero, so a transfer that departs from a
\* verifying one in any single condition does not verify.
C20_VerifyExactly ==
  \A i \in DOMAIN proofChain :
    LET proof == proofChain[i].proof
    IN ProofVerify(proof)
         <=> /\ proof.nullifier1 # proof.nullifier2
             /\ OnJubjubCurve(proof.valueCommitment1)
             /\ OnJubjubCurve(proof.valueCommitment2)
             /\ AmountLeq(<<0, 0>>, proof.valueBalance)
             /\ proof.proofA # 0
             /\ proof.proofB # 0
             /\ proof.proofC # 0

\* C21: hash() is deterministic and sensitive to every declared field: two
\* transfers have the same hash exactly when they are the same in all of
\* anchor, nullifier1, nullifier2, commitment1, commitment2, valueCommitment1,
\* valueCommitment2, valueBalance, proofA, proofB and proofC.
C21_HashSensitive ==
  \A i, j \in DOMAIN proofChain :
    ProofHash(proofChain[i].proof) = ProofHash(proofChain[j].proof)
      <=> proofChain[i].proof = proofChain[j].proof

\* C22: the amount a successful mint hands to the token is the valueBalance
\* of the transfer its proof verified, and that transfer passed verify();
\* the recipient and the witnesses the caller supplies do not enter it.
C22_AmountFromProof ==
  /\ [](\A call \in CurrentMintCalls :
          MintResult(call) = "ok"
            => /\ ProofVerify(call.proofVerification.proof)
               /\ \A recipientAddress \in Recipients \cup OperatorAddresses,
                     witness \in NullifierWitnesses :
                    MintedEvent([call EXCEPT !.recipientAddress = recipientAddress,
                                             !.nullifierWitness1 = witness,
                                             !.nullifierWitness2 = witness]).amount
                      = call.proofVerification.proof.valueBalance)
  /\ [][MintSucceeds
          => /\ ProofVerify(lastCall'.call.proofVerification.proof)
             /\ minted'[Len(minted')].amount
                  = lastCall'.call.proofVerification.proof.valueBalance]_vars

C22_Witness ==
  /\ lastCall.op = "mint"
  /\ lastCall.result = "ok"
  /\ lastCall.call.proofVerification.method = "verifyBatch"
  /\ minted[Len(minted)].amount = MAX_MINT_AMOUNT

\* C23: a mint succeeds only if the keys of nullifierWitness1,
\* nullifierWitness2 and processedTxWitness are nullifier1, nullifier2 and
\* txHash of the MintOutput: with a witness for any other key, whatever root
\* it recomputes, the call is rejected.
C23_WitnessKeysBound ==
  /\ [](\A call \in CurrentMintCalls :
          LET mintOutput == PublicOutput(call.proofVerification)
          IN /\ \A witness \in NullifierWitnesses :
                  /\ witness.key # mintOutput.nullifier1
                       => MintResult([call EXCEPT !.nullifierWitness1 = witness]) # "ok"
                  /\ witness.key # mintOutput.nullifier2
                       => MintResult([call EXCEPT !.nullifierWitness2 = witness]) # "ok"
             /\ \A witness \in ProcessedTxWitnesses(mintOutput.txHash) :
                  witness.key # mintOutput.txHash
                    => MintResult([call EXCEPT !.processedTxWitness = witness]) # "ok")
  /\ [][MintSucceeds
          => LET call == lastCall'.call
                 mintOutput == PublicOutput(call.proofVerification)
             IN /\ call.nullifierWitness1.key = mintOutput.nullifier1
                /\ call.nullifierWitness2.key = mintOutput.nullifier2
                /\ call.processedTxWitness.key = mintOutput.txHash]_vars

C23_Witness ==
  /\ lastCall.op = "mint"
  /\ lastCall.result = "Tx hash mismatch"
  /\ Len(minted) >= 1

\* C24: initialize is one-time: once an initialize has succeeded (configHash
\* is set), every further initialize call is rejected, whatever its
\* arguments, and configHash, the tip, the three roots and the pause flag
\* keep their values.
C24_InitializeOnce ==
  /\ [](configHash # ZeroField
          => \A call \in InitializeCalls : InitializeResult(call) # "ok")
  /\ [][(configHash # ZeroField /\ lastCall'.op = "initialize")
          => /\ lastCall'.result # "ok"
             /\ UNCHANGED <<bridgeState, tokenState>>]_vars

C24_Witness ==
  /\ configHash = ConfigHashOf(TOKEN_ADDRESS, OPERATOR_ADDRESS)
  /\ zcashBlockHeight > 0
  /\ isPaused
  /\ lastCall.op = "initialize"
  /\ lastCall.result = "provedState precondition"

\* C25: writers to the same root fail closed: when a mint (a requestBurn)
\* succeeds, every mint (requestBurn) that was prepared with witnesses of the
\* roots before it and would have succeeded there is now rejected with a
\* witness mismatch; the committed root is the one the successful call
\* computed, and a call rejected for its witness changes nothing.
C25_StaleWritersRejected ==
  [][/\ MintSucceeds
          => /\ nullifierSetRoot' = NewNullifierRoot(lastCall'.call)
             /\ processedTxRoot' = NewProcessedRoot(lastCall'.call)
             /\ \A other \in CurrentMintCalls :
                  MintResult(other) = "ok"
                    => (MintResult(other))' = "Invalid nullifier witness 1"
     /\ (lastCall'.op = "requestBurn" /\ lastCall'.result = "ok")
          => /\ burnRequestsRoot' =
                  ComputeRootAndKey(lastCall'.call.burnRequestsWitness, now)[1]
             /\ \A other \in CurrentRequestBurnCalls :
                  RequestBurnResult(other) = "ok"
                    => (RequestBurnResult(other))' = "Invalid witness"
     /\ ( \/ (lastCall'.op = "mint"
                /\ lastCall'.result \in {"Invalid nullifier witness 1",
                                         "Invalid nullifier witness 2",
                                         "Invalid tx witness"})
          \/ (lastCall'.op = "requestBurn" /\ lastCall'.result = "Invalid witness") )
          => UNCHANGED <<bridgeState, tokenState>>]_vars

\* C28: requestBurn inserts only into an empty slot: it succeeds only if the
\* slot of hash(requester, amount, destination) is empty in burnRequestsRoot,
\* after it succeeds the slot holds the request time, a non-empty value, and
\* a second requestBurn for the same requester, amount and destination is
\* then rejected whatever witness it brings.
C28_InsertIntoEmptySlot ==
  /\ [](\A call \in RequestBurnCalls :
          RequestBurnResult(call) = "ok"
            => MapGet(burnRequestsRoot,
                      RequestHash(call.requesterAddress, call.amount,
                                  call.zcashAddress)) = 0)
  /\ [][(lastCall'.op = "requestBurn" /\ lastCall'.result = "ok")
          => LET call == lastCall'.call
                 key == RequestHash(call.requesterAddress, call.amount,
                                    call.zcashAddress)
             IN /\ MapGet(burnRequestsRoot', key) = now
                /\ MapGet(burnRequestsRoot', key) # 0
                /\ \A again \in RequestBurnCalls :
                     RequestHash(again.requesterAddress, again.amount,
                                 again.zcashAddress) = key
                       => (RequestBurnResult(again))' # "ok"]_vars

\* C26: operations on independent roots need no cross-ordering: a mint
\* prepared (witnesses and preconditions) before a successful
\* updateLightClient, requestBurn or executeBurn still succeeds after it, and
\* a requestBurn, executeBurn or updateLightClient prepared before a
\* successful mint still succeeds after it.
C26_IndependentRoots ==
  [][/\ (lastCall'.op \in {"updateLightClient", "requestBurn", "executeBurn"}
           /\ lastCall'.result = "ok")
          => \A other \in CurrentMintCalls :
               MintResult(other) = "ok"
                 => /\ (MintResult(other))' = "ok"
                    /\ UNCHANGED MintPreconditions
     /\ MintSucceeds
          => /\ \A other \in CurrentRequestBurnCalls :
                  RequestBurnResult(other) = "ok"
                    => /\ (RequestBurnResult(other))' = "ok"
                       /\ UNCHANGED RequestBurnPreconditions
             /\ \A other \in ExecuteBurnCalls :
                  ExecuteBurnResult(other) = "ok"
                    => /\ (ExecuteBurnResult(other))' = "ok"
                       /\ UNCHANGED ExecuteBurnPreconditions
             /\ \A other \in LightClientProofs :
                  UpdateLightClientResult(other) = "ok"
                    => /\ (UpdateLightClientResult(other))' = "ok"
                       /\ UNCHANGED UpdateLightClientPreconditions]_vars

\* C27: every MintOutput the bridge accepts carries as txHash the hash() of
\* the transfer its amount and nullifiers were taken from, whichever
\* ZcashVerifier method made the proof, so no transfer is accepted under two
\* different transaction hashes.
C27_TxIdIsProofHash ==
  [][MintSucceeds
       => /\ minted'[Len(minted')].zcashTxHash
               = ProofHash(lastCall'.call.proofVerification.proof)
          /\ \A i \in DOMAIN minted :
               minted[i].zcashTxHash # minted'[Len(minted')].zcashTxHash]_vars

C30_NoWrapAround ==
  /\ [](\A call \in ExecuteBurnCalls :
          call.requestTime > now
            => ExecuteBurnResult(call) \in {"Invalid config", "Bridge is paused",
                                            "UInt64.sub underflow"})
  /\ [][(lastCall'.op = "executeBurn" /\ lastCall'.result = "UInt64.sub underflow")
          => UNCHANGED <<bridgeState, tokenState, pending>>]_vars

C30_Witness ==
  /\ lastCall.op = "executeBurn"
  /\ lastCall.result = "UInt64.sub underflow"
  /\ pending # EmptyMap
  /\ now > StartTime

\* C31: the pause flag changes only in a pause or unpause call that names the
\* addresses bound at initialize and carries the operator's signature over
\* the call's message; mint, requestBurn, executeBurn and updateLightClient
\* never change it, and a pause or unpause without a valid operator signature
\* is rejected with the flag unchanged.
C31_PauseOnlyByOperator ==
  /\ [](\A call \in AdminCalls : \A message \in {PAUSE_MESSAGE, UNPAUSE_MESSAGE} :
          AdminResult(call, message) = "ok"
            => /\ ConfigHashOf(call.tokenAddress, call.operatorAddress) = configHash
               /\ call.operatorSignature = Sign(call.operatorAddress, <<message>>))
  /\ [][/\ isPaused' # isPaused
             => /\ lastCall'.op \in {"pause", "unpause"}
                /\ lastCall'.result = "ok"
                /\ lastCall'.call.tokenAddress = TOKEN_ADDRESS
                /\ lastCall'.call.operatorAddress = OPERATOR_ADDRESS
                /\ lastCall'.call.operatorSignature.signer = OPERATOR_ADDRESS
                /\ lastCall'.call.operatorSignature.message =
                     <<IF isPaused' THEN PAUSE_MESSAGE ELSE UNPAUSE_MESSAGE>>
        /\ lastCall'.op \in {"mint", "requestBurn", "executeBurn", "updateLightClient"}
             => UNCHANGED isPaused
        /\ (lastCall'.op \in {"pause", "unpause"} /\ lastCall'.result = "Invalid signature")
             => UNCHANGED <<bridgeState, tokenState>>]_vars

C31_Witness ==
  /\ isPaused
  /\ lastCall.op = "unpause"
  /\ lastCall.result = "Invalid signature"

\* C32: an operator signature that an earlier pause or unpause call accepted
\* is not accepted again to toggle the flag: once paused, the bridge stays
\* paused until an unpause carries a signature not used before.
C32_NoAuthorizationReplay ==
  [][(lastCall'.op \in {"pause", "unpause"} /\ lastCall'.result = "ok"
        /\ isPaused' # isPaused)
       => lastCall'.call.operatorSignature \notin usedSignatures]_vars


\* C33: a successful initialize leaves the pause flag false, the tip at the
\* genesis hash and height supplied, configHash at the hash of the token and
\* operator addresses supplied, and each of nullifierSetRoot, processedTxRoot
\* and burnRequestsRoot at the root of the empty map.
C33_InitializePostState ==
  [][(lastCall'.op = "initialize" /\ lastCall'.result = "ok")
       => /\ isPaused' = FALSE
          /\ zcashBlockHash' = lastCall'.call.genesisBlockHash
          /\ zcashBlockHeight' = lastCall'.call.genesisHeight
          /\ configHash' = ConfigHashOf(lastCall'.call.tokenAddress,
                                        lastCall'.call.operatorAddress)
          /\ nullifierSetRoot' = EmptyMap
          /\ processedTxRoot' = EmptyMap
          /\ burnRequestsRoot' = EmptyMap]_vars


\* C34: each method writes only its own fields of the bridge's state: a
\* successful mint leaves the tip, burnRequestsRoot, the pause flag and
\* configHash unchanged; requestBurn and executeBurn change only
\* burnRequestsRoot; updateLightClient changes only the tip; pause and unpause
\* change only the pause flag.
C34_Frame ==
  [][/\ (lastCall'.op = "mint" /\ lastCall'.result = "ok")
          => UNCHANGED <<zcashBlockHash, zcashBlockHeight, burnRequestsRoot,
                         isPaused, configHash>>
     /\ (lastCall'.op \in {"requestBurn", "executeBurn"} /\ lastCall'.result = "ok")
          => UNCHANGED <<configHash, zcashBlockHash, zcashBlockHeight,
                         nullifierSetRoot, processedTxRoot, isPaused>>
     /\ (lastCall'.op = "updateLightClient" /\ lastCall'.result = "ok")
          => UNCHANGED <<configHash, nullifierSetRoot, processedTxRoot, isPaused,
                         burnRequestsRoot>>
     /\ (lastCall'.op \in {"pause", "unpause"} /\ lastCall'.result = "ok")
          => UNCHANGED <<configHash, zcashBlockHash, zcashBlockHeight,
                         nullifierSetRoot, processedTxRoot, burnRequestsRoot>>]_vars

C34_Witness ==
  /\ lastCall.op = "pause"
  /\ lastCall.result = "ok"
  /\ burnRequestsRoot # EmptyMap
  /\ isPaused


\* C35: a successful updateLightClient(proof) sets the tip to the proof's
\* latestBlockHash and height; LightClient.init and verifyBlock make a proof
\* only when the hash claimed is the hash of the header, and reject otherwise
\* without a proof; the state of an init proof is the claimed hash, the
\* header's height, zero chain work and the header's timestamp.
C35_TipFromProof ==
  /\ [](\A i \in DOMAIN headerChain :
          /\ headerChain[i].method \in {"init", "verifyBlock"}
               => headerChain[i].publicInput = headerChain[i].publicOutput.latestBlockHash
          /\ headerChain[i].method = "init"
               => \E header \in ZcashBlockHeaders :
                    /\ headerChain[i].publicInput = HeaderHash(header)
                    /\ headerChain[i].publicOutput =
                         [latestBlockHash |-> HeaderHash(header),
                          height |-> header.height, chainWork |-> 0,
                          timestamp |-> header.timestamp])
  /\ [][/\ (lastCall'.op = "updateLightClient" /\ lastCall'.result = "ok")
             => /\ zcashBlockHash' =
                     LightClientPublicOutput(lastCall'.call).latestBlockHash
                /\ zcashBlockHeight' = LightClientPublicOutput(lastCall'.call).height
        /\ lastCall'.result \in {"Block hash mismatch", "Header hash mismatch"}
             => UNCHANGED headerChain
        /\ (lastCall'.op = "LightClient.verifyBlock" /\ lastCall'.result = "ok")
             => \E header \in NextHeaders(headerChain[Len(headerChain)].publicOutput,
                                          HeaderClock) :
                  /\ headerChain'[Len(headerChain')].publicInput = HeaderHash(header)
                  /\ headerChain'[Len(headerChain')].publicOutput.height = header.height]_vars

C35_Witness ==
  /\ lastCall.op = "updateLightClient"
  /\ lastCall.result = "ok"
  /\ "method" \in DOMAIN lastCall.call
  /\ lastCall.call.method = "verifyBlock"
  /\ zcashBlockHeight = 1
  /\ zcashBlockHash = lastCall.call.publicInput


\* The number of consecutive zero bits from the first bit of a hash on
RECURSIVE LeadingZeroBits(_, _)
LeadingZeroBits(hashBits, i) ==
  IF i > Len(hashBits) \/ hashBits[i] # 0 THEN 0
  ELSE 1 + LeadingZeroBits(hashBits, i + 1)

\* C36: verifyBlock accepts a header only when the consecutive leading zero
\* bits of its hash reach the threshold: a hash whose first bit is 1 is never
\* accepted for a non-zero threshold.
C36_LeadingZerosReachThreshold ==
  \A i \in DOMAIN headerChain :
    headerChain[i].method = "verifyBlock"
      => LeadingZeroBits(HashBits(headerChain[i].publicInput), 1) >= POW_MIN_ZEROS


\* C37: every successful verifyBlock adds the work of the header's bits to
\* the chain work of the prior state, and along a chain of proofs the chain
\* work never decreases.
C37_ChainWorkAccumulates ==
  /\ [](\A i \in 2..Len(headerChain) :
          headerChain[i].publicOutput.chainWork
            >= headerChain[i - 1].publicOutput.chainWork)
  /\ [][(lastCall'.op = "LightClient.verifyBlock" /\ lastCall'.result = "ok")
          => \E header \in MinedHeaders(TipState) :
               /\ headerChain'[Len(headerChain')].publicInput = HeaderHash(header)
               /\ headerChain'[Len(headerChain')].publicOutput.chainWork =
                    TipState.chainWork + CalculateBlockWork(header.bits)]_vars

C37_Witness ==
  /\ Len(headerChain) = 3
  /\ headerChain[3].method = "verifyBlock"
  /\ headerChain[2].publicOutput.chainWork = 2
  /\ headerChain[3].publicOutput.chainWork = 3


\* C38: after a successful mintWithOrchardVerification the committed
\* nullifier root marks both nullifiers of the bundle's two actions spent.
C38_BothNullifiersSpent ==
  [][(lastCall'.op = "mintWithOrchardVerification" /\ lastCall'.result = "ok")
       => \A i \in 1..2 :
            MapGet(nullifierSetRoot', lastCall'.call.orchardBundle.actions[i].nf)
              = SPENT]_vars


C40_HandlersSerialized ==
  /\ Cardinality({i \in DOMAIN transactionMutex :
                    transactionMutex[i].status = "running"}) <= 1
  /\ \A i \in DOMAIN transactionMutex : \A j \in DOMAIN transactionMutex :
       (i < j /\ transactionMutex[j].status # "pending")
         => transactionMutex[i].status \in {"fulfilled", "rejected"}
  /\ \A j \in DOMAIN transactionMutex :
       (/\ transactionMutex[j].status = "pending"
        /\ \A i \in 1..(j - 1) : transactionMutex[i].status \in {"fulfilled", "rejected"})
         => ENABLED StartHandler(j)

C40_Witness ==
  /\ Len(transactionMutex) = 3
  /\ transactionMutex[1].status = "rejected"
  /\ transactionMutex[2].status = "running"
  /\ transactionMutex[3].status = "pending"
  /\ transactionMutex[1].handler = "handleMint"
  /\ transactionMutex[2].handler = "handleBurn"

====
